---- MODULE Spec2Model ----
(***************************************************************************)
(* Model of the AFIP/ARCA electronic-invoicing client (afip_service.py):   *)
(* the WSAA ticket cache (_get_auth / _login_wsaa), the WSFE number query  *)
(* (get_next_cbte_nro) and the authorization attempt (emitir_comprobante,  *)
(* emitir_factura_c).                                                      *)
(*                                                                         *)
(* Time is counted in minutes.  Money is counted in cents.  An XML         *)
(* response is the sequence of its elements in document order, each a      *)
(* record [tag, text]; a text carries the flag `pad` when it is            *)
(* surrounded by white space.  A Python Optional is a sequence of length   *)
(* at most one: None is << >>.                                             *)
(***************************************************************************)
EXTENDS Integers, Sequences, FiniteSets, TLC

VARIABLES
    cfg,        \* the client's immutable configuration (pv, cuit)
    world,      \* who calls the client and how the endpoints may answer
    now,        \* the wall clock, in minutes
    ta_cache,   \* self._ta_cache: None or <<[token, sign, exp]>>
    issued,     \* how many tickets the authentication endpoint has issued
    srvLast,    \* billing service: last authorized number per invoice class
    th,         \* per caller: position in the code, locals, request in flight
    calc        \* a computation of the client taken on its own: input and result

vars == <<cfg, world, now, ta_cache, issued, srvLast, th, calc>>

\* ---------------------------------------------------------------- constants

CBTE_TIPO_FACTURA_C == 11
CBTE_TIPO_FACTURA_B == 6
\* timedelta(minutes=10) of _get_auth
RenewalMargin == 10
\* r.status_code >= 400
HttpErrorFloor == 400
\* resp_xml[:800]
RawLimit == 800
HttpBodyLimit == 2000
GenerationLead == 5
TicketHours == 12
ListLimit == 500
\* Id IVA 21% = 5
IvaId == 5

\* ---------------------------------------------------------------- bounds

MaxNow == 15
MaxLogins == 3
MaxLast == 2
MaxTotal == 3000
MaxDay == 5
MaxCbteTipo == 12
MaxSrc == 2
MaxRuns == 3
MaxText == 4

Threads == {1, 2}
TickSteps == {5}
ExpiryOffsets == {5, 10, 15}
CbteTipos == {CBTE_TIPO_FACTURA_B, CBTE_TIPO_FACTURA_C, 1}
Totals == {12100, 10001}
DocTipos == {99}
DocNros == {0}
PtoVtas == {3}
Cuits == {20}
None == << >>
Some(x) == <<x>>

\* the mode flags a client is built with: absent, empty, and texts in
\* either case
ModoArgs == {None, Some(""), Some("PROD"), Some("prod"), Some("HOMO"), Some("homo"),
             Some("test")}

\* str.upper() on the mode flags above and on the taxpayer types below
Upper(s) ==
    IF s = "prod" THEN "PROD"
    ELSE IF s = "homo" THEN "HOMO"
    ELSE IF s = "test" THEN "TEST"
    ELSE IF s = "mono" THEN "MONO"
    ELSE IF s = "Mono" THEN "MONO"
    ELSE IF s = "ri" THEN "RI"
    ELSE IF s = "Ri" THEN "RI"
    ELSE IF s = "unknown" THEN "UNKNOWN"
    ELSE s

\* the if / else of __init__ on self.modo
WsaaUrl(modo) ==
    IF modo = "PROD" THEN "https://wsaa.afip.gov.ar/ws/services/LoginCms"
    ELSE "https://wsaahomo.afip.gov.ar/ws/services/LoginCms"

\* _wsfe_url with the production address for every mode
WsfeUrlProd(modo) == "https://servicios1.afip.gov.ar/wsfev1/service.asmx"
\* _wsfe_url: read from self.modo at each POST
WsfeUrl(modo) ==
    IF modo = "PROD" THEN "https://servicios1.afip.gov.ar/wsfev1/service.asmx"
    ELSE "https://wswhomo.afip.gov.ar/wsfev1/service.asmx"

\* AfipService.__init__: (modo or "PROD").upper(), the numbers, the
\* authentication address
Construct(modo, pv, cuit) ==
    LET m == Upper(IF modo = None \/ modo = Some("") THEN "PROD" ELSE modo[1])
    IN  [modo |-> m, pv |-> pv, cuit |-> cuit, wsaa_url |-> WsaaUrl(m)]

Min(a, b) == IF a < b THEN a ELSE b

\* ---------------------------------------------------------------- XML helpers

El(tag, s) == [tag |-> tag, text |-> [s |-> s, pad |-> FALSE]]
ElPad(tag, s) == [tag |-> tag, text |-> [s |-> s, pad |-> TRUE]]

\* (el.text or "").strip()
Strip(text) == text.s

\* positions of the elements whose tag ends with `tag`, in document order
Matches(elems, tag) == {i \in 1..Len(elems) : elems[i].tag = tag}

SetMin(S) == CHOOSE x \in S : \A y \in S : x <= y
SetMax(S) == CHOOSE x \in S : \A y \in S : x >= y

\* the loop without its "is None" test: every match overwrites the value
LastText(elems, tag) ==
    IF Matches(elems, tag) = {} THEN None
    ELSE Some(Strip(elems[SetMax(Matches(elems, tag))].text))
\* for el in tree.iter(): if el.tag.endswith(tag) and v is None: v = strip(text)
FirstText(elems, tag) ==
    IF Matches(elems, tag) = {} THEN None
    ELSE Some(Strip(elems[SetMin(Matches(elems, tag))].text))

\* for el in tree.iter(): if el.tag.endswith("CbteNro"): last = el.text
\* the loop of get_next_cbte_nro with the number 0 standing in for a missing field
LastNumberDefault(elems) ==
    IF Matches(elems, "CbteNro") = {} THEN Some(0)
    ELSE Some(elems[SetMax(Matches(elems, "CbteNro"))].text.s)
LastNumber(elems) ==
    IF Matches(elems, "CbteNro") = {} THEN None
    ELSE Some(elems[SetMax(Matches(elems, "CbteNro"))].text.s)

\* f"{code}: {msg}".strip(": ") for texts that neither start nor end with
\* a colon or a blank; a code that is still None prints as "None"
ObsText(code, msg) ==
    LET c == IF code = None THEN "None" ELSE code[1]
    IN  IF c = "" THEN msg
        ELSE IF msg = "" THEN c
        ELSE c \o ": " \o msg

\* the second loop of the response parsing: `code` survives from one
\* element to the next and an entry is appended at every Msg element
RECURSIVE ObsLoop(_, _, _)
ObsLoop(elems, code, acc) ==
    IF elems = << >> THEN acc
    ELSE LET el == Head(elems)
             c2 == IF el.tag = "Code" THEN Some(Strip(el.text)) ELSE code
             m  == Strip(el.text)
         IN  IF el.tag = "Msg" /\ (c2 \notin {None, Some("")} \/ m # "")
             THEN ObsLoop(Tail(elems), c2, Append(acc, ObsText(c2, m)))
             ELSE ObsLoop(Tail(elems), c2, acc)

ObsMsgs(elems) == ObsLoop(elems, None, << >>)

\* " | ".join(obs_msgs)
RECURSIVE Join(_)
Join(msgs) ==
    IF msgs = << >> THEN ""
    ELSE IF Len(msgs) = 1 THEN msgs[1]
    ELSE msgs[1] \o " | " \o Join(Tail(msgs))

\* resp_xml[:800], r.text[:2000]: the model's responses are shorter than the
\* limits
Truncate(raw, n) == SubSeq(raw, 1, Min(Len(raw), n))

\* ---------------------------------------------------------------- tax breakdown

\* round(x, 2) of a quotient of cents: nearest cent (a tie cannot occur for
\* a divisor of 121)
RoundDiv(a, b) == (2 * a + b) \div (2 * b)

\* f"{x:.2f}" of an amount held in cents: the units and the two decimals
Fmt2(c) == [units |-> c \div 100, cents |-> c % 100]

\* the class test with every class let through to the elif
SupportedAny(cbte_tipo) == cbte_tipo = cbte_tipo
Supported(cbte_tipo) == cbte_tipo \in {CBTE_TIPO_FACTURA_C, CBTE_TIPO_FACTURA_B}

\* the if / elif of emitir_comprobante: imp_neto, imp_iva and the Iva block
\* the breakdown with the tax taken as 21% of the total
BreakdownTaxOnTotal(cbte_tipo, imp_total) ==
    IF cbte_tipo = CBTE_TIPO_FACTURA_C
    THEN [imp_neto |-> imp_total, imp_iva |-> 0, iva_block |-> << >>]
    ELSE LET neto == RoundDiv(imp_total * 100, 121)
             iva  == RoundDiv(imp_total * 21, 100)
         IN  [imp_neto |-> neto, imp_iva |-> iva,
              iva_block |-> <<[Id |-> IvaId, BaseImp |-> Fmt2(neto),
                               Importe |-> Fmt2(iva)]>>]
\* the breakdown with the net amount cut to the cent instead of rounded
BreakdownTruncated(cbte_tipo, imp_total) ==
    IF cbte_tipo = CBTE_TIPO_FACTURA_C
    THEN [imp_neto |-> imp_total, imp_iva |-> 0, iva_block |-> << >>]
    ELSE LET neto == (imp_total * 100) \div 121
             iva  == imp_total - neto
         IN  [imp_neto |-> neto, imp_iva |-> iva,
              iva_block |-> <<[Id |-> IvaId, BaseImp |-> Fmt2(neto),
                               Importe |-> Fmt2(iva)]>>]
\* the breakdown with a zero tax block for class C
BreakdownZeroBlock(cbte_tipo, imp_total) ==
    IF cbte_tipo = CBTE_TIPO_FACTURA_C
    THEN [imp_neto |-> imp_total, imp_iva |-> 0,
          iva_block |-> <<[Id |-> IvaId, BaseImp |-> Fmt2(imp_total),
                           Importe |-> Fmt2(0)]>>]
    ELSE LET neto == RoundDiv(imp_total * 100, 121)
             iva  == imp_total - neto
         IN  [imp_neto |-> neto, imp_iva |-> iva,
              iva_block |-> <<[Id |-> IvaId, BaseImp |-> Fmt2(neto),
                               Importe |-> Fmt2(iva)]>>]
Breakdown(cbte_tipo, imp_total) ==
    IF cbte_tipo = CBTE_TIPO_FACTURA_C
    THEN [imp_neto |-> imp_total, imp_iva |-> 0, iva_block |-> << >>]
    ELSE LET neto0 == RoundDiv(imp_total * 100, 121)
             iva   == imp_total - neto0
             diff  == imp_total - (neto0 + iva)
             neto  == IF diff # 0 THEN neto0 + diff ELSE neto0
         IN  [imp_neto |-> neto, imp_iva |-> iva,
              iva_block |-> <<[Id |-> IvaId, BaseImp |-> Fmt2(neto),
                               Importe |-> Fmt2(iva)]>>]

\* cbte_fch = datetime.now().strftime("%Y%m%d"): the day the clock is in
Today(n) == n \div (24 * 60)

\* ---------------------------------------------------------------- tickets and requests

Ticket(k, exp) == [token |-> <<"T", k>>, sign |-> <<"S", k>>, exp |-> exp]

\* {"Token": token, "Sign": sign, "Cuit": self.cuit}
AuthOf(ticket) == [Token |-> ticket.token, Sign |-> ticket.sign, Cuit |-> cfg.cuit]

\* if self._ta_cache: ... if exp - now > timedelta(minutes=10)
CacheHitReversed(cache, t) == cache # None /\ t - cache[1].exp > RenewalMargin
CacheHitInclusive(cache, t) == cache # None /\ cache[1].exp - t >= RenewalMargin
CacheHit(cache, t) == cache # None /\ cache[1].exp - t > RenewalMargin

\* body of FECompUltimoAutorizado
QueryBody(auth, cbte_tipo) ==
    [action |-> "FECompUltimoAutorizado", url |-> WsfeUrl(cfg.modo), Auth |-> auth,
     PtoVta |-> cfg.pv, CbteTipo |-> cbte_tipo]

\* body of FECAESolicitar, as emitir_comprobante and emitir_factura_c build it
SolicitarBody(auth_xml, cbte_tipo, doc_tipo, doc_nro, cbte_nro, imp_total, bd) ==
    [action |-> "FECAESolicitar", url |-> WsfeUrl(cfg.modo), Auth |-> auth_xml,
     CantReg |-> 1, PtoVta |-> cfg.pv, CbteTipo |-> cbte_tipo,
     Concepto |-> 1, DocTipo |-> doc_tipo, DocNro |-> doc_nro,
     CbteDesde |-> cbte_nro, CbteHasta |-> cbte_nro, CbteFch |-> Today(now),
     ImpTotal |-> Fmt2(imp_total), ImpTotConc |-> Fmt2(0),
     ImpNeto |-> Fmt2(bd.imp_neto), ImpOpEx |-> Fmt2(0),
     ImpIVA |-> Fmt2(bd.imp_iva), ImpTrib |-> Fmt2(0),
     MonId |-> "PES", MonCotiz |-> "1.0000", Iva |-> bd.iva_block]

\* ---------------------------------------------------------------- what the endpoints answer

SignOutcomes == IF world.answers = "any" THEN {"ok", "notfound", "failed"} ELSE {"ok"}

\* the loginCmsReturn document: token, sign, expirationTime, each possibly missing
TaDocs(k, t) ==
    {[token |-> Some(<<"T", k>>), sign |-> Some(<<"S", k>>), exp |-> Some(t + off)] :
        off \in ExpiryOffsets}
    \cup (IF world.answers = "any"
          THEN {[token |-> None, sign |-> Some(<<"S", k>>), exp |-> Some(t + 15)],
                [token |-> Some(<<"T", k>>), sign |-> None, exp |-> Some(t + 15)],
                [token |-> Some(<<"T", k>>), sign |-> Some(<<"S", k>>), exp |-> None],
                [token |-> Some(<< >>), sign |-> Some(<<"S", k>>), exp |-> Some(t + 15)],
                [token |-> Some(<<"T", k>>), sign |-> Some(<< >>), exp |-> Some(t + 15)]}
          ELSE {})

\* answers of the authentication endpoint: once it has issued MaxLogins
\* tickets it refuses further logins
LoginResponses ==
    {[status |-> 500, ta |-> None]}
    \cup (IF issued < MaxLogins
          THEN {[status |-> 200, ta |-> Some(d)] : d \in TaDocs(issued + 1, now)}
          ELSE {})
    \cup (IF world.answers = "any"
          THEN {[status |-> 200, ta |-> None],
                [status |-> 500,
                 ta |-> Some([token |-> Some(<<"T", 0>>), sign |-> Some(<<"S", 0>>),
                              exp |-> Some(now + 15)])]}
          ELSE {})

\* answers to FECompUltimoAutorizado for a request
QueryResponses(req) ==
    LET L == srvLast[req.CbteTipo]
        head == <<El("PtoVta", req.PtoVta), El("CbteTipo", req.CbteTipo)>>
    IN  {[status |-> 200, elems |-> head \o <<El("CbteNro", L)>>]}
        \cup (IF world.answers = "any"
              THEN {[status |-> 500, elems |-> << >>],
                    [status |-> 500, elems |-> head \o <<El("CbteNro", L)>>],
                    [status |-> 200, elems |-> head]}
                   \cup {[status |-> 200,
                          elems |-> head \o <<El("CbteNro", L), El("CbteNro", d)>>] :
                            d \in (0..MaxLast) \ {L}}
              ELSE {})

CaeText == "12345678901234"
VtoText == "20301231"
\* the values of a second CAE and CAEFchVto further down the document
LaterCae == "99999999999999"
LaterVto == "20310131"

Opt(tag, v) == IF v = None THEN << >> ELSE <<El(tag, v[1])>>

\* observation blocks of a response: Code / Msg pairs, and blocks in which
\* one of the two is missing or empty
ObsBlocks ==
    { << >>,
      <<El("Code", "10015"), El("Msg", "CUIT invalido")>>,
      <<El("Code", "10015"), El("Msg", "CUIT invalido"),
        El("Code", "10016"), El("Msg", "Fecha")>>,
      <<El("Code", "10015"), El("Msg", "")>>,
      <<El("Code", "10015"), El("Code", "10016"), El("Msg", "Fecha")>> }

WellFormedObs ==
    { <<El("Code", "10015"), El("Msg", "CUIT invalido")>>,
      <<El("Code", "10015"), El("Msg", "CUIT invalido"),
        El("Code", "10016"), El("Msg", "Fecha")>> }

\* the service authorizes a request only for the number after its last one
CanAuthorize(req) ==
    /\ req.CbteDesde = srvLast[req.CbteTipo] + 1
    /\ req.CbteHasta = req.CbteDesde
    /\ req.CbteDesde <= MaxLast

ApprovedElems ==
    {<<El("Resultado", "A"), El("Resultado", "A"), El("CAE", CaeText), El("CAEFchVto", VtoText),
       El("CAE", LaterCae), El("CAEFchVto", LaterVto)>>,
     <<ElPad("Resultado", "A"), El("CAE", CaeText), El("CAEFchVto", VtoText)>>}

RejectedElems(obsSet) ==
    {<<El("Resultado", "R"), El("Resultado", "R")>> \o o : o \in obsSet}

\* approved but incomplete, no Resultado at all, and mixed header / detail
AnomalousElems ==
    ({<<El("Resultado", "A")>> \o Opt("CAE", c) \o Opt("CAEFchVto", v) :
        c \in {None, Some(""), Some(CaeText)}, v \in {None, Some(""), Some(VtoText)}}
      \ {<<El("Resultado", "A"), El("CAE", CaeText), El("CAEFchVto", VtoText)>>})
    \cup {o \o Opt("CAE", c) : o \in ObsBlocks, c \in {None, Some(CaeText)}}
    \cup {<<El("Resultado", "R"), El("Resultado", "A"), El("CAE", CaeText),
            El("CAEFchVto", VtoText)>>,
          <<El("Resultado", "P"), El("CAE", CaeText), El("CAEFchVto", VtoText)>>}

\* answers to FECAESolicitar for a request; `authorized` tells whether the
\* service recorded the invoice
SolicitarResponses(req) ==
    (IF CanAuthorize(req)
     THEN {[status |-> 200, elems |-> e, authorized |-> TRUE] : e \in ApprovedElems}
     ELSE {})
    \cup {[status |-> 200, elems |-> e, authorized |-> FALSE] :
            e \in RejectedElems(IF world.answers = "any" THEN ObsBlocks ELSE WellFormedObs)}
    \cup (IF world.answers = "any"
          THEN {[status |-> 500, elems |-> << >>, authorized |-> FALSE]}
               \cup {[status |-> 500, elems |-> e, authorized |-> FALSE] : e \in ApprovedElems}
               \cup {[status |-> 200, elems |-> e, authorized |-> FALSE] : e \in AnomalousElems}
          ELSE {})

\* ---------------------------------------------------------------- callers

Calls ==
    {[op |-> "_get_auth", cbte_tipo |-> 0, doc_tipo |-> 0, doc_nro |-> 0, total |-> 0]}
    \cup {[op |-> "get_next_cbte_nro", cbte_tipo |-> ct, doc_tipo |-> 0, doc_nro |-> 0,
           total |-> 0] : ct \in CbteTipos}
    \cup {[op |-> "emitir_comprobante", cbte_tipo |-> ct, doc_tipo |-> dt, doc_nro |-> dn,
           total |-> tot] : ct \in CbteTipos, dt \in DocTipos, dn \in DocNros, tot \in Totals}
    \cup {[op |-> "emitir_factura_c", cbte_tipo |-> CBTE_TIPO_FACTURA_C, doc_tipo |-> dt,
           doc_nro |-> dn, total |-> tot] : dt \in DocTipos, dn \in DocNros, tot \in Totals}

NoOut == [kind |-> "none", err |-> "", msg |-> << >>, val |-> None]

\* a caller that is not inside the client
IdleRec ==
    [pc |-> "idle", op |-> "", site |-> "", cbte_tipo |-> 0, doc_tipo |-> 0, doc_nro |-> 0,
     total |-> 0, auth_xml |-> None, cbte_nro |-> None, req |-> None, sendCache |-> None,
     steps |-> << >>, ga |-> None, signed |-> None, lresp |-> None, qresp |-> None,
     resp |-> None, out |-> NoOut]

\* the frame of a call that has just entered an operation
StartRec(c) ==
    [IdleRec EXCEPT !.op = c.op, !.cbte_tipo = c.cbte_tipo, !.doc_tipo = c.doc_tipo,
                    !.doc_nro = c.doc_nro, !.total = c.total,
                    !.site = IF c.op = "_get_auth" THEN "direct"
                             ELSE IF c.op = "get_next_cbte_nro" THEN "getnext"
                             ELSE "entry"]

\* raise RuntimeError(...): the operation ends, nothing is in flight any more
Raise(r, err, msg) ==
    [r EXCEPT !.pc = "done", !.req = None, !.sendCache = None, !.auth_xml = None,
              !.out = [kind |-> "raise", err |-> err, msg |-> msg, val |-> None]]

\* return value: the operation ends
Return(r, val) ==
    [r EXCEPT !.pc = "done", !.req = None, !.sendCache = None, !.auth_xml = None,
              !.out = [kind |-> "return", err |-> "", msg |-> << >>, val |-> Some(val)]]

\* self._wsfe_session.post(...): the request is in flight; sendCache remembers
\* the ticket the cache held at that moment
PostWsfe(r, body) ==
    [r EXCEPT !.pc = IF body.action = "FECAESolicitar" THEN "solicitar" ELSE "query",
              !.req = Some(body), !.sendCache = ta_cache]

\* what follows the return of _get_auth at the place it was called from:
\* the caller of _get_auth itself, line 245 / 359 (entry) or line 223
AfterAuth(r, auth, cache) ==
    IF r.site = "direct" THEN Return(r, auth)
    ELSE IF r.site = "entry" THEN [r EXCEPT !.auth_xml = Some(auth), !.pc = "entered"]
    ELSE [PostWsfe(r, QueryBody(auth, r.cbte_tipo))
            EXCEPT !.sendCache = cache, !.steps = Append(@, "NumberRequested")]

\* the record kept of one call of _get_auth: the clock and the cache it
\* read, the logins it made, and once it has returned the cache it left,
\* the Auth block it handed out and the expiry of the ticket behind it
GaOpen(logins) ==
    [callNow |-> now, before |-> ta_cache, logins |-> logins, posted |-> FALSE, url |-> "",
     returned |-> FALSE, after |-> None, auth |-> None, exp |-> 0]
GaClose(g, cache, auth, exp) ==
    [g EXCEPT !.returned = TRUE, !.after = cache, !.auth = Some(auth), !.exp = exp]

\* _get_auth up to its return or up to the POST of _login_wsaa:
\* the cache test, then _build_ltr, _sign_cms and requests.post
\* _get_auth with the login going on to its POST whatever the signing gave
GetAuthUnsigned(r, signed) ==
    IF CacheHit(ta_cache, now)
    THEN AfterAuth([r EXCEPT !.signed = None, !.lresp = None,
                             !.ga = Some(GaClose(GaOpen(0), ta_cache,
                                                 AuthOf(ta_cache[1]), ta_cache[1].exp))],
                   AuthOf(ta_cache[1]), ta_cache)
    ELSE [r EXCEPT !.pc = "login", !.signed = Some(signed), !.lresp = None,
                   !.ga = Some([GaOpen(1) EXCEPT !.posted = TRUE, !.url = cfg.wsaa_url])]
GetAuth(r, signed) ==
    IF CacheHit(ta_cache, now)
    THEN AfterAuth([r EXCEPT !.signed = None, !.lresp = None,
                             !.ga = Some(GaClose(GaOpen(0), ta_cache,
                                                 AuthOf(ta_cache[1]), ta_cache[1].exp))],
                   AuthOf(ta_cache[1]), ta_cache)
    ELSE IF signed = "notfound"
    THEN Raise([r EXCEPT !.signed = Some(signed), !.lresp = None, !.ga = Some(GaOpen(1))],
               "openssl", <<"No encuentro 'openssl' en PATH">>)
    ELSE IF signed = "failed"
    THEN Raise([r EXCEPT !.signed = Some(signed), !.lresp = None, !.ga = Some(GaOpen(1))],
               "openssl", <<"OpenSSL cms -sign fallo", "stderr">>)
    ELSE [r EXCEPT !.pc = "login", !.signed = Some(signed), !.lresp = None,
                   !.ga = Some([GaOpen(1) EXCEPT !.posted = TRUE, !.url = cfg.wsaa_url])]

\* `not x` of the token or the sign of the ticket document: missing, or an
\* empty text (expirationTime is a time here, and only ever missing)
Blank(v) == v = None \/ v = Some(<< >>)

\* _login_wsaa after the POST: status check, loginCmsReturn, token / sign /
\* expirationTime; the result is the ticket or the error raised
\* the parse of the login response with only the token looked at
ParseLoginTokenOnly(resp) ==
    IF resp.status >= HttpErrorFloor
    THEN [ok |-> FALSE, err |-> "WSAA HTTP", msg |-> <<resp.status, Truncate(resp.ta, HttpBodyLimit)>>]
    ELSE IF resp.ta = None
    THEN [ok |-> FALSE, err |-> "WSAA loginCmsReturn", msg |-> << >>]
    ELSE IF Blank(resp.ta[1].token)
    THEN [ok |-> FALSE, err |-> "WSAA TA incompleto", msg |-> << >>]
    ELSE [ok |-> TRUE,
          ticket |-> [token |-> resp.ta[1].token[1],
                      sign |-> IF Blank(resp.ta[1].sign) THEN <<"S", 0>> ELSE resp.ta[1].sign[1],
                      exp |-> IF resp.ta[1].exp = None THEN now ELSE resp.ta[1].exp[1]]]
ParseLogin(resp) ==
    IF resp.status >= HttpErrorFloor
    THEN [ok |-> FALSE, err |-> "WSAA HTTP", msg |-> <<resp.status, Truncate(resp.ta, HttpBodyLimit)>>]
    ELSE IF resp.ta = None
    THEN [ok |-> FALSE, err |-> "WSAA loginCmsReturn", msg |-> << >>]
    ELSE IF Blank(resp.ta[1].token) \/ Blank(resp.ta[1].sign) \/ resp.ta[1].exp = None
    THEN [ok |-> FALSE, err |-> "WSAA TA incompleto", msg |-> << >>]
    ELSE [ok |-> TRUE,
          ticket |-> [token |-> resp.ta[1].token[1], sign |-> resp.ta[1].sign[1],
                      exp |-> resp.ta[1].exp[1]]]

\* _soap_post_wsfe after the POST, then the CbteNro loop of get_next_cbte_nro
NextNumberSame(resp) ==
    IF resp.status >= HttpErrorFloor
    THEN [ok |-> FALSE, err |-> "WSFE HTTP", msg |-> <<resp.status, Truncate(resp.elems, HttpBodyLimit)>>]
    ELSE IF LastNumber(resp.elems) = None
    THEN [ok |-> FALSE, err |-> "WSFE CbteNro", msg |-> << >>]
    ELSE [ok |-> TRUE, nro |-> LastNumber(resp.elems)[1]]
\* the number query with the status of the response left unread
NextNumberAnyStatus(resp) ==
    IF LastNumber(resp.elems) = None
    THEN [ok |-> FALSE, err |-> "WSFE CbteNro", msg |-> << >>]
    ELSE [ok |-> TRUE, nro |-> LastNumber(resp.elems)[1] + 1]
NextNumber(resp) ==
    IF resp.status >= HttpErrorFloor
    THEN [ok |-> FALSE, err |-> "WSFE HTTP", msg |-> <<resp.status, Truncate(resp.elems, HttpBodyLimit)>>]
    ELSE IF LastNumber(resp.elems) = None
    THEN [ok |-> FALSE, err |-> "WSFE CbteNro", msg |-> << >>]
    ELSE [ok |-> TRUE, nro |-> LastNumber(resp.elems)[1] + 1]

\* the two parsing loops over the FECAESolicitar response
ParseSolicitar(elems) ==
    [resultado |-> FirstText(elems, "Resultado"),
     cae |-> FirstText(elems, "CAE"),
     cae_vto |-> FirstText(elems, "CAEFchVto"),
     obs_msgs |-> ObsMsgs(elems)]

\* " | ".join(obs_msgs) if obs_msgs else resp_xml[:800]
RejectionMsg(p, elems) ==
    [resultado |-> p.resultado,
     extra |-> Join(p.obs_msgs),
     raw |-> IF p.obs_msgs # << >> THEN << >> ELSE Truncate(elems, RawLimit)]

Empty(v) == v = None \/ v = Some("")

\* AfipResult(cbte_nro, cae, cae_vto)
AfipResultSwapped(cbte_nro, cae, cae_vto) ==
    [cbte_nro |-> cbte_nro, cae |-> cae_vto, cae_vto |-> cae]
AfipResult(cbte_nro, cae, cae_vto) == [cbte_nro |-> cbte_nro, cae |-> cae, cae_vto |-> cae_vto]

\* the end of emitir_comprobante / emitir_factura_c, from the response on
SolicitarOutcomeLenient(r, resp) ==
    LET p == ParseSolicitar(resp.elems)
    IN  IF resp.status >= HttpErrorFloor
        THEN Raise(r, "WSFE HTTP", <<resp.status, Truncate(resp.elems, HttpBodyLimit)>>)
        ELSE IF p.resultado # Some("A") /\ Empty(p.cae)
        THEN Raise(r, "WSFE rechazo", RejectionMsg(p, resp.elems))
        ELSE IF Empty(p.cae) /\ Empty(p.cae_vto)
        THEN Raise(r, "WSFE incompleto", << >>)
        ELSE Return(r, AfipResult(r.cbte_nro[1],
                                  IF p.cae = None THEN "" ELSE p.cae[1],
                                  IF p.cae_vto = None THEN "" ELSE p.cae_vto[1]))
SolicitarOutcome(r, resp) ==
    LET p == ParseSolicitar(resp.elems)
    IN  IF resp.status >= HttpErrorFloor
        THEN Raise(r, "WSFE HTTP", <<resp.status, Truncate(resp.elems, HttpBodyLimit)>>)
        ELSE IF p.resultado # Some("A")
        THEN Raise(r, "WSFE rechazo", RejectionMsg(p, resp.elems))
        ELSE IF Empty(p.cae) \/ Empty(p.cae_vto)
        THEN Raise(r, "WSFE incompleto", << >>)
        ELSE Return(r, AfipResult(r.cbte_nro[1], p.cae[1], p.cae_vto[1]))

\* emitir_comprobante / emitir_factura_c between the return of
\* get_next_cbte_nro and the POST of FECAESolicitar
BuildAndSend(r, nro) ==
    LET r1 == [r EXCEPT !.cbte_nro = Some(nro)]
    IN  IF r.op = "emitir_factura_c"
        THEN [PostWsfe(r1, SolicitarBody(r.auth_xml[1], CBTE_TIPO_FACTURA_C, r.doc_tipo,
                                         r.doc_nro, nro, r.total,
                                         [imp_neto |-> r.total, imp_iva |-> 0,
                                          iva_block |-> << >>]))
                EXCEPT !.steps = @ \o <<"RequestBuilt", "Sent">>]
        ELSE IF ~Supported(r.cbte_tipo)
        THEN Raise(r1, "CbteTipo no soportado", <<r.cbte_tipo>>)
        ELSE [PostWsfe(r1, SolicitarBody(r.auth_xml[1], r.cbte_tipo, r.doc_tipo, r.doc_nro,
                                         nro, r.total, Breakdown(r.cbte_tipo, r.total)))
                EXCEPT !.steps = @ \o <<"BreakdownComputed", "RequestBuilt", "Sent">>]

\* a failed number query ends the operation: the error propagates
QueryFailedRetry(r, n) ==
    [PostWsfe(r, r.req[1]) EXCEPT !.steps = Append(@, "NumberRequested")]
QueryFailed(r, n) == Raise(r, n.err, n.msg)

\* self._ta_cache = (token, sign, exp)
CacheAfterLogin(ticket) == Some(ticket)

\* ---------------------------------------------------------------- initial states

InitLast == [ct \in CbteTipos |->
                IF ct = CBTE_TIPO_FACTURA_B THEN 0
                ELSE IF ct = CBTE_TIPO_FACTURA_C THEN 1 ELSE 2]

\* the reference deployment: one interactive session uses the client and
\* the endpoints may answer anything
OneCaller ==
    [calls |-> [t \in Threads |-> IF t = 1 THEN Calls ELSE {}], answers |-> "any"]

\* two sessions share the client; the endpoints answer well-formed documents
TwoCallers ==
    [calls |-> [t \in Threads |->
                  IF t = 1
                  THEN {c \in Calls : \/ c.op = "_get_auth"
                                      \/ /\ c.op = "emitir_comprobante"
                                         /\ c.cbte_tipo = CBTE_TIPO_FACTURA_C
                                         /\ c.total = 12100}
                  ELSE {c \in Calls : c.op = "_get_auth"}],
     answers |-> "wellformed"]

\* two sessions share the client and both invoice the same class at the same
\* sales point; the endpoints answer well-formed documents
TwoInvoicers ==
    [calls |-> [t \in Threads |->
                  {c \in Calls : /\ c.op = "emitir_comprobante"
                                 /\ c.cbte_tipo = CBTE_TIPO_FACTURA_C
                                 /\ c.total = 12100}],
     answers |-> "wellformed"]
\* the client after __init__, nobody inside it
InitIdle ==
    /\ now = 0
    /\ ta_cache = None
    /\ issued = 0
    /\ srvLast = InitLast
    /\ th = [t \in Threads |-> IdleRec]

\* one session uses a client built with any of the mode flags; the
\* endpoints answer well-formed documents
OneInvoicer ==
    [calls |-> [t \in Threads |->
                  IF t = 1
                  THEN {c \in Calls : \/ c.op = "_get_auth"
                                      \/ /\ c.op = "emitir_factura_c"
                                         /\ c.total = 10001}
                  ELSE {}],
     answers |-> "wellformed"]

InitEnv ==
    /\ cfg \in {Construct(m, pv, cuit) : m \in ModoArgs, pv \in PtoVtas, cuit \in Cuits}
    /\ InitIdle
    /\ calc = None
    /\ world = OneInvoicer

InitService ==
    /\ cfg \in {Construct(Some("PROD"), pv, cuit) : pv \in PtoVtas, cuit \in Cuits}
    /\ now = 0
    /\ ta_cache = None
    /\ issued = 0
    /\ srvLast = InitLast
    /\ th = [t \in Threads |-> IdleRec]

InitClient ==
    /\ InitService
    /\ calc = None

\* the totals of the amounts under study, in cents: every total up to
\* MaxTotal, and those of the reference deployment
AmountTotals == (0..MaxTotal) \cup Totals

\* emitir_comprobante and emitir_factura_c taken from the return of
\* get_next_cbte_nro to the POST of FECAESolicitar
AmountCalls ==
    {[op |-> "emitir_comprobante", cbte_tipo |-> ct, doc_tipo |-> 99, doc_nro |-> 0,
      total |-> tot] : ct \in CbteTipos, tot \in AmountTotals}
    \cup {[op |-> "emitir_factura_c", cbte_tipo |-> CBTE_TIPO_FACTURA_C, doc_tipo |-> 99,
           doc_nro |-> 0, total |-> tot] : tot \in AmountTotals}

\* the frame of such a call when get_next_cbte_nro has returned
NumberedFrame(c) ==
    [StartRec(c) EXCEPT !.pc = "query", !.auth_xml = Some(AuthOf(Ticket(1, 15))),
                        !.steps = <<"NumberRequested">>]

\* ---------------------------------------------------------------- the login request

\* strftime("%Y-%m-%dT%H:%M:%SZ") of a time held in milliseconds: the day and
\* the hour, minute and second of the day; what is below the second is not
\* written
Strftime(ms) ==
    LET s == ms \div 1000
    IN  [date |-> s \div 86400, hour |-> (s % 86400) \div 3600,
         minute |-> (s % 3600) \div 60, second |-> s % 60]

\* _build_ltr with the generation time 5 minutes after the clock
BuildLtrLate(nowMs, service) ==
    [uniqueId |-> nowMs \div 1000,
     generationTime |-> Strftime(nowMs + GenerationLead * 60 * 1000),
     expirationTime |-> Strftime(nowMs + TicketHours * 3600 * 1000),
     service |-> service]
\* _build_ltr: the document, for the clock read at its first line; the
\* service name goes into the text as it is
BuildLtr(nowMs, service) ==
    [uniqueId |-> nowMs \div 1000,
     generationTime |-> Strftime(nowMs - GenerationLead * 60 * 1000),
     expirationTime |-> Strftime(nowMs + TicketHours * 3600 * 1000),
     service |-> service]

\* the instants the clock is read at, in milliseconds: whole seconds and
\* instants inside a second, at the times of the day where the generation or
\* the expiration time changes day
Instants ==
    {(d * 86400 + o) * 1000 + f :
        d \in 1..MaxDay, o \in {0, 299, 300, 43199, 43200, 86399}, f \in {0, 1, 500, 999}}

\* service names as sequences of characters; no name holds a ";", so that
\* an "&" is never the start of a character reference
ServiceNames ==
    {<<"w", "s", "f", "e">>, <<"w", "s", "_", "a", "5">>, <<"a", "&", "b">>,
     <<"a", "<", "b">>, << >>}

InitLtr ==
    /\ InitService
    /\ world = OneCaller
    /\ calc \in {[stage |-> "called", nowMs |-> i, service |-> s] :
                   i \in Instants, s \in ServiceNames}
\* ---------------------------------------------------------------- taxpayer rules

\* a text: its characters without the blanks around them, and whether it
\* has blanks around them
Text(s, pad) == [s |-> s, pad |-> pad]

\* the values the taxpayer_type setting is read with
TaxpayerValues ==
    {None}
    \cup {Some(Text(s, pad)) :
            s \in {"", "MONO", "mono", "Mono", "RI", "ri", "Ri", "UNKNOWN", "unknown", "X"},
            pad \in BOOLEAN}

\* (value or "MONO").strip().upper(), then the test on ("MONO", "RI")
normalize_taxpayer_type(value) ==
    LET falsy == value = None \/ value = Some(Text("", FALSE))
        v == Upper(IF falsy THEN "MONO" ELSE Strip(value[1]))
    IN  IF v \in {"MONO", "RI"} THEN v ELSE "MONO"

is_cbte_allowed_for_taxpayer(taxpayer_type, cbte_tipo) ==
    IF normalize_taxpayer_type(taxpayer_type) = "MONO"
    THEN cbte_tipo = CBTE_TIPO_FACTURA_C
    ELSE cbte_tipo = CBTE_TIPO_FACTURA_B

\* the allowed classes with both classes open to MONO
allowed_cbte_types_both(taxpayer_type) ==
    IF normalize_taxpayer_type(taxpayer_type) = "MONO"
    THEN <<CBTE_TIPO_FACTURA_C, CBTE_TIPO_FACTURA_B>>
    ELSE <<CBTE_TIPO_FACTURA_B>>
allowed_cbte_types_for_taxpayer(taxpayer_type) ==
    IF normalize_taxpayer_type(taxpayer_type) = "MONO"
    THEN <<CBTE_TIPO_FACTURA_C>>
    ELSE <<CBTE_TIPO_FACTURA_B>>

default_cbte_for_taxpayer(taxpayer_type) == allowed_cbte_types_for_taxpayer(taxpayer_type)[1]

InitTaxpayer ==
    /\ InitService
    /\ world = OneCaller
    /\ calc \in {[stage |-> "asked", value |-> v, cbte_tipo |-> ct] :
                   v \in TaxpayerValues, ct \in 0..MaxCbteTipo}
\* ---------------------------------------------------------------- the ledger and the legacy import

\* texts that SQLite compares are sequences of character codes: the digits
\* are 48..57, " " is 32, "-" 45, "/" 47 and ":" 58
Digits2(n) == <<48 + ((n \div 10) % 10), 48 + (n % 10)>>
Digits4(n) == Digits2(n \div 100) \o Digits2(n % 100)

\* "HH:MM:SS"
ClockText(t) == Digits2(t.hh) \o <<58>> \o Digits2(t.mm) \o <<58>> \o Digits2(t.ss)

\* "YYYY-MM-DD", the form of the dates the listings are asked for
IsoDate(d) == Digits4(d.y) \o <<45>> \o Digits2(d.m) \o <<45>> \o Digits2(d.d)

\* created_at as insert_invoice writes it: "YYYY-MM-DD HH:MM:SS"
IsoStamp(d, t) == IsoDate(d) \o <<32>> \o ClockText(t)

\* created_at of the old databases: "DD/MM/YYYY HH:MM:SS"
LegacyStamp(d, t) ==
    Digits2(d.d) \o <<47>> \o Digits2(d.m) \o <<47>> \o Digits4(d.y) \o <<32>> \o ClockText(t)

\* a <= b for two TEXT values, as SQLite's BINARY collation has it
RECURSIVE TextLeq(_, _)
TextLeq(a, b) ==
    IF a = << >> THEN TRUE
    ELSE IF b = << >> THEN FALSE
    ELSE IF Head(a) # Head(b) THEN Head(a) < Head(b)
    ELSE TextLeq(Tail(a), Tail(b))

\* the days and the time of day of the invoices under study
LedgerDays == {[y |-> 2026, m |-> 1, d |-> 1], [y |-> 2026, m |-> 1, d |-> 31]}
TenOClock == [hh |-> 10, mm |-> 0, ss |-> 0]

\* the invoices a legacy database may hold, without their id
LegacyInvoices ==
    {[created_at |-> stamp, pv |-> 4, cbte_tipo |-> CBTE_TIPO_FACTURA_C, cbte_nro |-> n,
      imp_total |-> 10000, items |-> <<"ITEM">>] :
        stamp \in {IsoStamp(d, TenOClock) : d \in LedgerDays}
                  \cup {LegacyStamp(d, TenOClock) : d \in LedgerDays},
        n \in 1..2}

\* a table: rows in the order of their id, which counts from 1
WithIds(invs) == [i \in 1..Len(invs) |-> [id |-> i, inv |-> invs[i]]]

SrcTables ==
    {WithIds(s) : s \in UNION {[1..n -> LegacyInvoices] : n \in 0..MaxSrc}}

\* the destination after init_db: empty, or with an invoice the application
\* has made
DstTables ==
    {<< >>,
     WithIds(<<[created_at |-> IsoStamp([y |-> 2026, m |-> 1, d |-> 1], TenOClock), pv |-> 4,
                cbte_tipo |-> CBTE_TIPO_FACTURA_C, cbte_nro |-> 1, imp_total |-> 500,
                items |-> <<"X">>]>>)}

\* the SELECT of import_invoices with the id of the source row as the key
ExistingById(dst, inv, id) == \E i \in 1..Len(dst) : dst[i].id = id
\* SELECT id FROM invoices WHERE pv=? AND cbte_tipo=? AND cbte_nro=?
Existing(dst, inv, id) ==
    \E i \in 1..Len(dst) : /\ dst[i].inv.pv = inv.pv
                           /\ dst[i].inv.cbte_tipo = inv.cbte_tipo
                           /\ dst[i].inv.cbte_nro = inv.cbte_nro

\* the for loop of import_invoices over the source rows in the order of
\* their id; the new row takes the next id of the destination
RECURSIVE ImportLoop(_, _, _, _)
ImportLoop(rows, dst, imported, skipped) ==
    IF rows = << >> THEN [dst |-> dst, imported |-> imported, skipped |-> skipped]
    ELSE IF Existing(dst, Head(rows).inv, Head(rows).id)
    THEN ImportLoop(Tail(rows), dst, imported, skipped + 1)
    ELSE ImportLoop(Tail(rows),
                    Append(dst, [id |-> Len(dst) + 1, inv |-> Head(rows).inv]),
                    imported + 1, skipped)

import_invoices(src_db, dst_db) == ImportLoop(src_db, dst_db, 0, 0)

\* the WHERE of list_invoices, daily_summary and range_summary
Between(row, d0, d1) ==
    /\ TextLeq(d0, row.inv.created_at)
    /\ TextLeq(row.inv.created_at, d1)

DayStart(d) == IsoDate(d) \o <<32>> \o ClockText([hh |-> 0, mm |-> 0, ss |-> 0])
DayEnd(d) == IsoDate(d) \o <<32>> \o ClockText([hh |-> 23, mm |-> 59, ss |-> 59])

\* rows newest first, at most limit of them
RECURSIVE Newest(_, _)
Newest(rows, limit) ==
    IF rows = << >> \/ limit = 0 THEN << >>
    ELSE <<rows[Len(rows)]>> \o Newest(SubSeq(rows, 1, Len(rows) - 1), limit - 1)

\* list_invoices: the day, the range, both or neither (None) may be given
list_invoices(db, date, from, to, limit) ==
    LET keep(row) ==
            /\ date # None => Between(row, DayStart(date[1]), DayEnd(date[1]))
            /\ (from # None /\ to # None) => Between(row, DayStart(from[1]), DayEnd(to[1]))
    IN  Newest(SelectSeq(db, keep), limit)

RECURSIVE SumTotals(_)
SumTotals(rows) == IF rows = << >> THEN 0 ELSE Head(rows).inv.imp_total + SumTotals(Tail(rows))

daily_summary(db, date) ==
    LET hit == SelectSeq(db, LAMBDA row : Between(row, DayStart(date), DayEnd(date)))
    IN  [cant |-> Len(hit), total |-> SumTotals(hit)]

range_summary(db, from, to) ==
    LET hit == SelectSeq(db, LAMBDA row : Between(row, DayStart(from), DayEnd(to)))
    IN  [cant |-> Len(hit), total |-> SumTotals(hit)]

InitImport ==
    /\ InitService
    /\ world = OneCaller
    /\ calc \in {[stage |-> "ledger", src |-> s, dst0 |-> d, dst |-> d, runs |-> << >>,
                  asked |-> None] : s \in SrcTables, d \in DstTables}
\* ---------------------------------------------------------------- the ticket template

\* a text is a sequence of characters: "LF" and "CR" are the line feed and
\* the carriage return, "BS" is the backslash, the others are letters
TemplateChars == {"A", "LF", "CR", "BS", "n"}

TemplateTexts == UNION {[1..k -> TemplateChars] : k \in 0..MaxText}

\* raw.replace("\r\n", "\n")
RECURSIVE ReplaceCrLf(_)
ReplaceCrLf(raw) ==
    IF raw = << >> THEN << >>
    ELSE IF Len(raw) >= 2 /\ raw[1] = "CR" /\ raw[2] = "LF"
    THEN <<"LF">> \o ReplaceCrLf(SubSeq(raw, 3, Len(raw)))
    ELSE <<Head(raw)>> \o ReplaceCrLf(Tail(raw))

\* raw.replace("\r", "\n")
ReplaceCr(raw) == [i \in 1..Len(raw) |-> IF raw[i] = "CR" THEN "LF" ELSE raw[i]]

\* raw.split(sep) for a separator of one or two characters: the lines, the
\* last of them being cur with what is left of raw
RECURSIVE SplitFrom(_, _, _)
SplitFrom(raw, sep, cur) ==
    IF Len(raw) < Len(sep) THEN <<cur \o raw>>
    ELSE IF SubSeq(raw, 1, Len(sep)) = sep
    THEN <<cur>> \o SplitFrom(SubSeq(raw, Len(sep) + 1, Len(raw)), sep, << >>)
    ELSE SplitFrom(Tail(raw), sep, Append(cur, Head(raw)))

Split(raw, sep) == SplitFrom(raw, sep, << >>)

HasChar(raw, c) == \E i \in 1..Len(raw) : raw[i] = c

\* "\\n" in raw
HasEscapedNewline(raw) == \E i \in 1..Len(raw) - 1 : raw[i] = "BS" /\ raw[i + 1] = "n"

\* _normalize_template_text with the escaped form split in every text
NormalizeEscapedFirst(text) ==
    IF HasEscapedNewline(text) THEN Split(text, <<"BS", "n">>)
    ELSE IF HasChar(text, "LF") \/ HasChar(text, "CR")
    THEN Split(ReplaceCr(ReplaceCrLf(text)), <<"LF">>)
    ELSE <<text>>
\* _normalize_template_text
NormalizeTemplateText(text) ==
    IF HasChar(text, "LF") \/ HasChar(text, "CR")
    THEN Split(ReplaceCr(ReplaceCrLf(text)), <<"LF">>)
    ELSE IF HasEscapedNewline(text) THEN Split(text, <<"BS", "n">>)
    ELSE <<text>>

\* the rows init_db leaves in an empty ticket_template: DEFAULT_TICKET_LINES
\* with line_no from 1, here two lines
DefaultTemplate ==
    <<[id |-> 1, line_no |-> 1, text |-> <<"A", "A">>], [id |-> 2, line_no |-> 2, text |-> << >>]>>

\* save_ticket_lines: DELETE FROM ticket_template, then one row per line
\* with line_no from 1; the ids go on from the last id ever given
save_ticket_lines(db, text) ==
    LET lines == NormalizeTemplateText(text)
    IN  [rows |-> [i \in 1..Len(lines) |->
                      [id |-> db.last_id + i, line_no |-> i, text |-> lines[i]]],
         last_id |-> db.last_id + Len(lines)]

\* SELECT text FROM ticket_template ORDER BY line_no ASC, id ASC
RECURSIVE OrderedTexts(_, _)
OrderedTexts(rows, left) ==
    IF left = {} THEN << >>
    ELSE LET first == CHOOSE i \in left :
                         \A j \in left :
                            \/ rows[i].line_no < rows[j].line_no
                            \/ rows[i].line_no = rows[j].line_no /\ rows[i].id <= rows[j].id
         IN  <<rows[first].text>> \o OrderedTexts(rows, left \ {first})

get_ticket_lines(db) == OrderedTexts(db.rows, DOMAIN db.rows)

\* the texts of the saves made before
EarlierTexts == {<<"A", "LF", "A">>, <<"LF", "BS", "n", "CR">>}

\* the database after init_db
FreshDb == [rows |-> DefaultTemplate, last_id |-> Len(DefaultTemplate)]

\* the table is as init_db left it or as an earlier save left it
InitTemplate ==
    /\ InitService
    /\ world = OneCaller
    /\ \E db \in {FreshDb} \cup {save_ticket_lines(FreshDb, t) : t \in EarlierTexts} :
          calc = [stage |-> "template", db |-> db, before |-> {}, text |-> None, got |-> None]
InitAmounts ==
    /\ InitService
    /\ world = OneCaller
    /\ calc \in {[stage |-> "numbered", frame |-> NumberedFrame(c)] : c \in AmountCalls}

Init == InitClient /\ world = OneCaller
InitConc == InitClient /\ world = TwoCallers
InitRace == InitClient /\ world = TwoInvoicers

\* ---------------------------------------------------------------- actions

\* a caller enters _get_auth, get_next_cbte_nro, emitir_comprobante or
\* emitir_factura_c; each of them starts with _get_auth
Call(t) ==
    /\ th[t].pc = "idle"
    /\ \E c \in world.calls[t], s \in SignOutcomes :
          th' = [th EXCEPT ![t] = GetAuth(StartRec(c), s)]
    /\ UNCHANGED <<calc, cfg, world, now, ta_cache, issued, srvLast>>

\* emitir_* calls get_next_cbte_nro, which calls _auth_xml again (line 223)
EnterGetNext(t) ==
    /\ th[t].pc = "entered"
    /\ \E s \in SignOutcomes :
          th' = [th EXCEPT ![t] = GetAuth([th[t] EXCEPT !.site = "getnext"], s)]
    /\ UNCHANGED <<calc, cfg, world, now, ta_cache, issued, srvLast>>

\* the authentication endpoint answers the POST of _login_wsaa; _get_auth
\* stores the ticket and returns
LoginReturns(t) ==
    /\ th[t].pc = "login"
    /\ \E resp \in LoginResponses :
          LET p == ParseLogin(resp)
              r == [th[t] EXCEPT !.lresp = Some(resp)]
          IN  IF p.ok
              THEN /\ ta_cache' = CacheAfterLogin(p.ticket)
                   /\ issued' = issued + 1
                   /\ th' = [th EXCEPT ![t] =
                               AfterAuth([r EXCEPT !.ga = Some(GaClose(r.ga[1], ta_cache',
                                                       AuthOf(p.ticket), p.ticket.exp))],
                                         AuthOf(p.ticket), ta_cache')]
              ELSE /\ th' = [th EXCEPT ![t] = Raise(r, p.err, p.msg)]
                   /\ UNCHANGED <<ta_cache, issued>>
    /\ UNCHANGED <<cfg, world, now, srvLast>>

LoginReply(t) == LoginReturns(t) /\ UNCHANGED calc

\* the same step with the time of the answer noted
TimedLoginReply(t) == LoginReturns(t) /\ calc' = [stage |-> "session", at |-> now]

\* the billing endpoint answers FECompUltimoAutorizado; get_next_cbte_nro
\* returns and emitir_* goes on to the POST of FECAESolicitar
QueryReply(t) ==
    /\ th[t].pc = "query"
    /\ \E resp \in QueryResponses(th[t].req[1]) :
          LET n == NextNumber(resp)
              r == [th[t] EXCEPT !.qresp = Some(resp), !.ga = None, !.signed = None,
                                 !.lresp = None]
          IN  th' = [th EXCEPT ![t] =
                       IF ~n.ok THEN QueryFailed(r, n)
                       ELSE IF r.op = "get_next_cbte_nro" THEN Return(r, n.nro)
                       ELSE BuildAndSend(r, n.nro)]
    /\ UNCHANGED <<calc, cfg, world, now, ta_cache, issued, srvLast>>

\* the billing endpoint answers FECAESolicitar
SolicitarReply(t) ==
    /\ th[t].pc = "solicitar"
    /\ \E resp \in SolicitarResponses(th[t].req[1]) :
          /\ th' = [th EXCEPT ![t] =
                      SolicitarOutcome([th[t] EXCEPT !.resp = Some(resp), !.qresp = None,
                                                     !.steps = Append(@, "Answered")], resp)]
          /\ srvLast' = IF resp.authorized
                        THEN [srvLast EXCEPT ![th[t].req[1].CbteTipo] = th[t].req[1].CbteDesde]
                        ELSE srvLast
    /\ UNCHANGED <<calc, cfg, world, now, ta_cache, issued>>

\* the caller takes the result or the exception and is outside the client again
Leave(t) ==
    /\ th[t].pc = "done"
    /\ th' = [th EXCEPT ![t] = IdleRec]
    /\ UNCHANGED <<calc, cfg, world, now, ta_cache, issued, srvLast>>

\* time passes
Tick ==
    /\ \E d \in TickSteps : now + d <= MaxNow /\ now' = now + d
    /\ UNCHANGED <<calc, cfg, world, ta_cache, issued, srvLast, th>>

Next ==
    \/ \E t \in Threads : Call(t)
    \/ \E t \in Threads : EnterGetNext(t)
    \/ \E t \in Threads : LoginReply(t)
    \/ \E t \in Threads : QueryReply(t)
    \/ \E t \in Threads : SolicitarReply(t)
    \/ \E t \in Threads : Leave(t)
    \/ Tick

Spec == Init /\ [][Next]_vars
SpecConc == InitConc /\ [][Next]_vars
SpecRace == InitRace /\ [][Next]_vars
SpecEnv == InitEnv /\ [][Next]_vars

\* one session on a client with an empty cache, the time of the last answer
\* of the authentication endpoint noted
InitSession ==
    /\ InitService
    /\ world = OneCaller
    /\ calc = [stage |-> "session", at |-> 0]

\* ---------------------------------------------------------------- the interactive flow

\* the window: its one thread runs on_facturar
Ui == 1

DOC_TIPO_SIN_DOC == 99

\* what gather_items returns: the rows of the table with an amount above 0
ItemLists == {<< >>, <<[name |-> "ITEM", subtotal |-> 12100]>>}

RECURSIVE SumSubtotals(_)
SumSubtotals(items) ==
    IF items = << >> THEN 0 ELSE Head(items).subtotal + SumSubtotals(Tail(items))

\* one press of the button: the items of the table, the customer (final
\* consumer, or a document that is neither a DNI nor a CUIT), the class of
\* the combo box and the taxpayer_type setting
Clicks ==
    [items : ItemLists, doc : {"cf", "bad"},
     cbte_tipo : {CBTE_TIPO_FACTURA_B, CBTE_TIPO_FACTURA_C},
     taxpayer : {None, Some(Text("ri", FALSE)), Some(Text("MONO", TRUE))}]

\* created_at of insert_invoice: the clock of the machine, to the second
LocalStamp(n) ==
    IsoStamp([y |-> 2026, m |-> 1, d |-> 1 + Today(n)],
             [hh |-> (n \div 60) % 24, mm |-> n % 60, ss |-> 0])

\* insert_invoice: the row of invoices with its items, in one transaction
insert_invoice(db, pv, cbte_tipo, cbte_nro, doc_tipo, doc_nro, imp_total, cae, cae_vto, modo, items) ==
    Append(db,
           [id |-> Len(db) + 1, created_at |-> LocalStamp(now), pv |-> pv,
            cbte_tipo |-> cbte_tipo, cbte_nro |-> cbte_nro, doc_tipo |-> doc_tipo,
            doc_nro |-> doc_nro, imp_total |-> imp_total, cae |-> cae, cae_vto |-> cae_vto,
            modo |-> modo, items |-> items])

\* _is_cbte_allowed with every class of the combo box let through
is_cbte_allowed_always(taxpayer_type, cbte_tipo) ==
    cbte_tipo \in {CBTE_TIPO_FACTURA_C, CBTE_TIPO_FACTURA_B}
\* self._is_cbte_allowed(cbte_tipo)
IsCbteAllowed(taxpayer_type, cbte_tipo) ==
    is_cbte_allowed_for_taxpayer(taxpayer_type, cbte_tipo)

\* the shop: an empty ledger, nothing asked yet; the endpoints may answer
\* anything
InitFacturar ==
    /\ InitService
    /\ world = [calls |-> [t \in Threads |-> {}], answers |-> "any"]
    /\ calc = [stage |-> "facturar", invoices |-> << >>, click |-> None, box |-> ""]

\* on_facturar up to the call of emitir_comprobante: a new AfipService, then
\* the three tests, each of which ends the handler with a warning
OnFacturar ==
    /\ calc # None
    /\ calc.stage = "facturar"
    /\ th[Ui].pc = "idle"
    /\ ta_cache' = None
    /\ \E click \in Clicks :
          LET warn == IF click.items = << >> THEN "Faltan items"
                      ELSE IF click.doc = "bad" THEN "Documento invalido"
                      ELSE IF ~IsCbteAllowed(click.taxpayer, click.cbte_tipo)
                      THEN "Tipo de comprobante bloqueado"
                      ELSE ""
          IN  /\ calc' = [calc EXCEPT !.click = Some(click), !.box = warn]
              /\ th' = IF warn # "" THEN th
                        ELSE [th EXCEPT ![Ui] =
                                [StartRec([op |-> "emitir_comprobante",
                                           cbte_tipo |-> click.cbte_tipo,
                                           doc_tipo |-> DOC_TIPO_SIN_DOC, doc_nro |-> 0,
                                           total |-> SumSubtotals(click.items)])
                                   EXCEPT !.pc = "facturar"]]
    /\ UNCHANGED <<cfg, world, now, issued, srvLast>>

\* self.afip.emitir_comprobante(...) is entered: its first _get_auth
EmitirCalled ==
    /\ th[Ui].pc = "facturar"
    /\ \E s \in SignOutcomes : th' = [th EXCEPT ![Ui] = GetAuth(th[Ui], s)]
    /\ UNCHANGED <<calc, cfg, world, now, ta_cache, issued, srvLast>>

\* emitir_comprobante has returned or raised: insert_invoice and the ticket,
\* or the error box; a ticket that cannot be printed ends in the error box
\* with the row written
Facturado ==
    /\ calc # None
    /\ calc.stage = "facturar"
    /\ th[Ui].pc = "done"
    /\ IF th[Ui].out.kind = "return"
       THEN \E printed \in BOOLEAN :
               calc' = [calc EXCEPT
                          !.invoices = insert_invoice(@, cfg.pv, th[Ui].cbte_tipo,
                                                      th[Ui].out.val[1].cbte_nro,
                                                      th[Ui].doc_tipo, th[Ui].doc_nro,
                                                      th[Ui].total, th[Ui].out.val[1].cae,
                                                      th[Ui].out.val[1].cae_vto, cfg.modo,
                                                      calc.click[1].items),
                          !.box = IF printed THEN "OK" ELSE "Error"]
       ELSE calc' = [calc EXCEPT !.box = "Error"]
    /\ th' = [th EXCEPT ![Ui] = IdleRec]
    /\ UNCHANGED <<cfg, world, now, ta_cache, issued, srvLast>>

NextFacturar ==
    \/ OnFacturar
    \/ EmitirCalled
    \/ \E t \in Threads : EnterGetNext(t)
    \/ \E t \in Threads : LoginReply(t)
    \/ \E t \in Threads : QueryReply(t)
    \/ \E t \in Threads : SolicitarReply(t)
    \/ Facturado
    \/ Tick

SpecFacturar == InitFacturar /\ [][NextFacturar]_vars

NextSession ==
    \/ \E t \in Threads : Call(t)
    \/ \E t \in Threads : EnterGetNext(t)
    \/ \E t \in Threads : TimedLoginReply(t)
    \/ \E t \in Threads : QueryReply(t)
    \/ \E t \in Threads : SolicitarReply(t)
    \/ \E t \in Threads : Leave(t)
    \/ Tick

SpecSession == InitSession /\ [][NextSession]_vars

\* lines 250-321 of emitir_comprobante, 361-396 of emitir_factura_c: the
\* amounts, the request body and its POST
BuildRequest ==
    /\ calc # None
    /\ calc.stage = "numbered"
    /\ calc' = [stage |-> "built", frame |-> BuildAndSend(calc.frame, 1)]
    /\ UNCHANGED <<cfg, world, now, ta_cache, issued, srvLast, th>>

NextAmounts == BuildRequest

\* _login_wsaa, line 131: ltr = self._build_ltr(service)
BuildLoginRequest ==
    /\ calc # None
    /\ calc.stage = "called"
    /\ calc' = [stage |-> "ltr", nowMs |-> calc.nowMs, service |-> calc.service,
                ltr |-> BuildLtr(calc.nowMs, calc.service)]
    /\ UNCHANGED <<cfg, world, now, ta_cache, issued, srvLast, th>>

NextLtr == BuildLoginRequest

\* the four rules of db.py applied to a taxpayer type and a class; the
\* normalized type is normalized once more, as every rule does with the
\* value app.py has normalized already
ApplyTaxpayerRules ==
    /\ calc # None
    /\ calc.stage = "asked"
    /\ calc' = [stage |-> "ruled", value |-> calc.value, cbte_tipo |-> calc.cbte_tipo,
                normalized |-> normalize_taxpayer_type(calc.value),
                again |-> normalize_taxpayer_type(
                              Some(Text(normalize_taxpayer_type(calc.value), FALSE))),
                is_allowed |-> is_cbte_allowed_for_taxpayer(calc.value, calc.cbte_tipo),
                allowed |-> allowed_cbte_types_for_taxpayer(calc.value),
                default |-> default_cbte_for_taxpayer(calc.value)]
    /\ UNCHANGED <<cfg, world, now, ta_cache, issued, srvLast, th>>

NextTaxpayer == ApplyTaxpayerRules

\* one run of tools/import_legacy_db.py over the same source
ImportRun ==
    /\ calc # None
    /\ calc.stage = "ledger"
    /\ Len(calc.runs) < MaxRuns
    /\ LET r == import_invoices(calc.src, calc.dst)
       IN  calc' = [calc EXCEPT !.dst = r.dst,
                                !.runs = Append(@, [imported |-> r.imported,
                                                    skipped |-> r.skipped])]
    /\ UNCHANGED <<cfg, world, now, ta_cache, issued, srvLast, th>>

\* the listing and the two summaries, asked for a day and for a range of
\* days, as the history window of the application asks them
AskListings ==
    /\ calc # None
    /\ calc.stage = "ledger"
    /\ calc.asked = None
    /\ \E day \in LedgerDays, from \in LedgerDays, to \in LedgerDays :
          calc' = [calc EXCEPT !.asked =
                     Some([db |-> calc.dst, day |-> day, from |-> from, to |-> to,
                           of_day |-> list_invoices(calc.dst, Some(day), None, None, ListLimit),
                           of_range |-> list_invoices(calc.dst, None, Some(from), Some(to),
                                                      ListLimit),
                           day_sum |-> daily_summary(calc.dst, day),
                           range_sum |-> range_summary(calc.dst, from, to)])]
    /\ UNCHANGED <<cfg, world, now, ta_cache, issued, srvLast, th>>

NextImport == ImportRun \/ AskListings

\* the template editor saves a text
SaveTicketLines ==
    /\ calc # None
    /\ calc.stage = "template"
    /\ calc.text = None
    /\ \E text \in TemplateTexts :
          calc' = [calc EXCEPT !.db = save_ticket_lines(calc.db, text),
                               !.before = {calc.db.rows[i].id : i \in DOMAIN calc.db.rows},
                               !.text = Some(text), !.got = None]
    /\ UNCHANGED <<cfg, world, now, ta_cache, issued, srvLast, th>>

\* the ticket is rendered: the lines are read back
GetTicketLines ==
    /\ calc # None
    /\ calc.stage = "template"
    /\ calc.got = None
    /\ calc' = [calc EXCEPT !.got = Some(get_ticket_lines(calc.db))]
    /\ UNCHANGED <<cfg, world, now, ta_cache, issued, srvLast, th>>

NextTemplate == SaveTicketLines \/ GetTicketLines

SpecTemplate == InitTemplate /\ [][NextTemplate]_vars

SpecImport == InitImport /\ [][NextImport]_vars

SpecTaxpayer == InitTaxpayer /\ [][NextTaxpayer]_vars

SpecLtr == InitLtr /\ [][NextLtr]_vars

SpecAmounts == InitAmounts /\ [][NextAmounts]_vars

\* ---------------------------------------------------------------- properties

Emitir == {"emitir_comprobante", "emitir_factura_c"}

\* the value a response gives for a field: the trimmed text of the first
\* element of that name in document order, None when there is none
RespValue(elems, tag) ==
    LET m == SelectSeq(elems, LAMBDA e : e.tag = tag)
    IN  IF m = << >> THEN None ELSE Some(Head(m).text.s)

\* a caller whose FECAESolicitar was answered with an HTTP status below 400
Answered(t) ==
    /\ th[t].pc = "done"
    /\ th[t].op \in Emitir
    /\ th[t].resp # None
    /\ th[t].resp[1].status < HttpErrorFloor

NonEmpty(v) == v # None /\ v # Some("")

\* C1: when the response has Resultado "A" and non-empty CAE and CAEFchVto,
\* the attempt returns a result with the number obtained from
\* get_next_cbte_nro in that attempt, the response's CAE and its CAEFchVto.
C1_ApprovedResult ==
    \A t \in Threads :
        LET e == th[t].resp[1].elems
        IN  (/\ Answered(t)
             /\ RespValue(e, "Resultado") = Some("A")
             /\ NonEmpty(RespValue(e, "CAE"))
             /\ NonEmpty(RespValue(e, "CAEFchVto")))
            => /\ th[t].out.kind = "return"
               /\ th[t].out.val = Some([cbte_nro |-> th[t].cbte_nro[1],
                                        cae |-> RespValue(e, "CAE")[1],
                                        cae_vto |-> RespValue(e, "CAEFchVto")[1]])

C1_Witness ==
    \E t \in Threads :
        /\ Answered(t)
        /\ th[t].op = "emitir_factura_c"
        /\ th[t].out.kind = "return"
        /\ th[t].cbte_nro = Some(2)
        /\ th[t].out.val = Some([cbte_nro |-> 2, cae |-> CaeText, cae_vto |-> VtoText])

\* the observations of a response: every Code element opens one, and a Msg
\* element belongs to the observation before it when that one has no Msg yet
RECURSIVE Observations(_, _)
Observations(elems, acc) ==
    IF elems = << >> THEN acc
    ELSE LET el == Head(elems)
             n  == Len(acc)
         IN  IF el.tag = "Code"
             THEN Observations(Tail(elems), Append(acc, [code |-> el.text.s, msg |-> ""]))
             ELSE IF el.tag = "Msg" /\ n > 0 /\ acc[n].msg = ""
             THEN Observations(Tail(elems), [acc EXCEPT ![n].msg = el.text.s])
             ELSE IF el.tag = "Msg"
             THEN Observations(Tail(elems), Append(acc, [code |-> "", msg |-> el.text.s]))
             ELSE Observations(Tail(elems), acc)

\* "Code: Msg", without the separator when one of the two is empty
Rendered(o) ==
    IF o.code = "" THEN o.msg ELSE IF o.msg = "" THEN o.code ELSE o.code \o ": " \o o.msg

RECURSIVE RenderAll(_)
RenderAll(obs) ==
    IF obs = << >> THEN << >> ELSE <<Rendered(Head(obs))>> \o RenderAll(Tail(obs))

\* C2: whenever Resultado is anything other than "A", or absent, the attempt
\* fails with a rejection error whose message carries every observation of
\* the response as "Code: Msg", joined, or the truncated raw response when
\* there is no observation.
C2_RejectionCarriesEveryObservation ==
    \A t \in Threads :
        LET e   == th[t].resp[1].elems
            obs == Observations(e, << >>)
        IN  (Answered(t) /\ RespValue(e, "Resultado") # Some("A"))
            => /\ th[t].out.kind = "raise"
               /\ th[t].out.err = "WSFE rechazo"
               /\ th[t].out.msg.extra = Join(RenderAll(obs))
               /\ th[t].out.msg.raw = IF obs = << >> THEN Truncate(e, RawLimit) ELSE << >>

\* C3: approved but CAE or CAEFchVto missing or empty is a protocol error;
\* a result is returned only for Resultado "A" with both fields non-empty.
C3_ApprovedButIncomplete ==
    \A t \in Threads :
        LET e == th[t].resp[1].elems
        IN  /\ (/\ Answered(t)
                /\ RespValue(e, "Resultado") = Some("A")
                /\ ~(NonEmpty(RespValue(e, "CAE")) /\ NonEmpty(RespValue(e, "CAEFchVto"))))
               => (th[t].out.kind = "raise" /\ th[t].out.err = "WSFE incompleto")
            /\ (th[t].pc = "done" /\ th[t].op \in Emitir /\ th[t].out.kind = "return")
               => /\ Answered(t)
                  /\ RespValue(e, "Resultado") = Some("A")
                  /\ NonEmpty(RespValue(e, "CAE"))
                  /\ NonEmpty(RespValue(e, "CAEFchVto"))

C3_Witness ==
    \E t \in Threads :
        /\ Answered(t)
        /\ RespValue(th[t].resp[1].elems, "Resultado") = Some("A")
        /\ RespValue(th[t].resp[1].elems, "CAE") = Some("")
        /\ th[t].out.err = "WSFE incompleto"

\* the steps of one attempt of emitir_comprobante, in order
AttemptSteps == <<"NumberRequested", "BreakdownComputed", "RequestBuilt", "Sent", "Answered">>

IsPrefix(p, q) == Len(p) <= Len(q) /\ p = SubSeq(q, 1, Len(p))

\* how an attempt ended
Terminal(r) ==
    IF r.out.kind = "return" THEN "Approved"
    ELSE IF r.out.err = "WSFE rechazo" THEN "Rejected"
    ELSE IF r.out.err = "WSFE incompleto" THEN "Malformed"
    ELSE "Failed"

\* C4: an attempt goes through number requested, breakdown computed, request
\* built, request sent in that order, each at most once, the authorization
\* request only after the number query has answered, and it ends in one
\* terminal outcome: approved, rejected and malformed only after an answer.
C4_AttemptOrder ==
    \A t \in Threads :
        th[t].op = "emitir_comprobante"
        => /\ IsPrefix(th[t].steps, AttemptSteps)
           /\ th[t].pc = "query" => th[t].steps = SubSeq(AttemptSteps, 1, 1)
           /\ th[t].pc = "solicitar"
              => /\ th[t].steps = SubSeq(AttemptSteps, 1, 4)
                 /\ th[t].qresp # None
                 /\ th[t].cbte_nro # None
                 /\ th[t].req[1].action = "FECAESolicitar"
           /\ th[t].pc = "done"
              => /\ th[t].out.kind \in {"return", "raise"}
                 /\ th[t].req = None
                 /\ Terminal(th[t]) \in {"Approved", "Rejected", "Malformed"}
                    => th[t].steps = AttemptSteps

C4_Witness ==
    \E t \in Threads :
        /\ th[t].op = "emitir_comprobante"
        /\ th[t].pc = "done"
        /\ th[t].steps = AttemptSteps
        /\ Terminal(th[t]) = "Approved"

\* a call of _get_auth that has returned: what it read and what it gave
Handouts == {t \in Threads : th[t].ga # None /\ th[t].ga[1].returned}

\* the record of a call of _get_auth that found a ticket in the cache with
\* more than the renewal margin left
FoundValid(g) == g.before # None /\ g.before[1].exp - g.callNow > RenewalMargin

\* C5: with a cached ticket whose expiry minus now exceeds 10 minutes,
\* _get_auth returns that ticket's token and signature with the tax id,
\* performs no login and leaves the cache unchanged.
C5_CacheHit ==
    \A t \in Threads :
        (th[t].ga # None /\ FoundValid(th[t].ga[1]))
        => /\ th[t].ga[1].returned
           /\ th[t].pc # "login"
           /\ th[t].ga[1].logins = 0
           /\ th[t].ga[1].after = th[t].ga[1].before
           /\ th[t].ga[1].auth = Some([Token |-> th[t].ga[1].before[1].token,
                                       Sign |-> th[t].ga[1].before[1].sign,
                                       Cuit |-> cfg.cuit])

C5_Witness ==
    \E t \in Handouts :
        /\ th[t].ga[1].before # None
        /\ th[t].ga[1].before[1].exp - th[t].ga[1].callNow = 15
        /\ th[t].ga[1].logins = 0
        /\ th[t].op = "_get_auth"
        /\ th[t].out.kind = "return"

\* C6: with no cached ticket, or one with 10 minutes or less left, a
\* _get_auth that returns has performed exactly one login, has replaced the
\* cache with the ticket of that login and returns the new ticket's token
\* and signature, never the old one.
C6_CacheMiss ==
    \A t \in Handouts :
        LET g == th[t].ga[1]
        IN  ~FoundValid(g)
            => /\ g.logins = 1
               /\ g.after # None
               /\ g.after # g.before
               /\ g.auth = Some([Token |-> g.after[1].token, Sign |-> g.after[1].sign,
                                 Cuit |-> cfg.cuit])
               /\ g.after[1].token = <<"T", issued>>
               /\ g.before # None => g.auth[1].Token # g.before[1].token

C6_Witness ==
    \E t \in Handouts :
        /\ th[t].ga[1].before # None
        /\ th[t].ga[1].before[1].exp - th[t].ga[1].callNow = RenewalMargin
        /\ th[t].ga[1].logins = 1
        /\ th[t].ga[1].auth[1].Token # th[t].ga[1].before[1].token

\* C7: renewal is serialized: at most one login is in flight at any time.
C7_OneLoginInFlight ==
    Cardinality({t \in Threads : th[t].pc = "login"}) <= 1

\* C8: every Auth block _get_auth hands out, from the cache or from a login,
\* comes from a ticket whose expiry is more than 10 minutes after the time
\* of the call.
C8_HandedOutWithMargin ==
    \A t \in Handouts : th[t].ga[1].exp - th[t].ga[1].callNow > RenewalMargin

\* C9: every request in flight to the billing endpoint carries the token and
\* signature of the ticket the cache held when the request was sent, and
\* the configured tax id.
C9_RequestCarriesCachedTicket ==
    \A t \in Threads :
        th[t].req # None
        => /\ th[t].sendCache # None
           /\ th[t].req[1].Auth = [Token |-> th[t].sendCache[1].token,
                                   Sign |-> th[t].sendCache[1].sign,
                                   Cuit |-> cfg.cuit]

\* the numbers a last-authorized-number response reports
Reported(resp) == {resp.elems[i].text.s : i \in Matches(resp.elems, "CbteNro")}

\* C10: get_next_cbte_nro returns 1 plus the last authorized number the
\* service reports for the sales point and the requested class, and the
\* authorization request carries that number as CbteDesde and CbteHasta with
\* CantReg 1.
C10_NextNumber ==
    \A t \in Threads :
        /\ (/\ th[t].qresp # None
            /\ th[t].qresp[1].status < HttpErrorFloor
            /\ Cardinality(Reported(th[t].qresp[1])) = 1)
           => /\ Reported(th[t].qresp[1]) = {srvLast[th[t].cbte_tipo]}
              /\ th[t].op = "get_next_cbte_nro"
                 => th[t].out.val = Some(srvLast[th[t].cbte_tipo] + 1)
              /\ th[t].op \in Emitir
                 => th[t].cbte_nro = Some(srvLast[th[t].cbte_tipo] + 1)
        /\ th[t].pc = "query"
           => /\ th[t].req[1].action = "FECompUltimoAutorizado"
              /\ th[t].req[1].PtoVta = cfg.pv
              /\ th[t].req[1].CbteTipo = th[t].cbte_tipo
        /\ th[t].pc = "solicitar"
           => /\ th[t].req[1].CbteDesde = th[t].cbte_nro[1]
              /\ th[t].req[1].CbteHasta = th[t].cbte_nro[1]
              /\ th[t].req[1].CantReg = 1
              /\ th[t].req[1].PtoVta = cfg.pv
              /\ th[t].req[1].CbteTipo = th[t].cbte_tipo

C10_Witness ==
    \E t \in Threads :
        /\ th[t].pc = "solicitar"
        /\ th[t].op = "emitir_comprobante"
        /\ th[t].cbte_tipo = CBTE_TIPO_FACTURA_B
        /\ Reported(th[t].qresp[1]) = {0}
        /\ th[t].req[1].CbteDesde = 1
        /\ th[t].req[1].CbteHasta = 1

\* a caller whose FECompUltimoAutorizado was answered with an HTTP status
\* below 400 by a response with no CbteNro element
NoNumber(t) ==
    /\ th[t].qresp # None
    /\ th[t].qresp[1].status < HttpErrorFloor
    /\ Matches(th[t].qresp[1].elems, "CbteNro") = {}

\* C11: when the answer to FECompUltimoAutorizado has no CbteNro element,
\* get_next_cbte_nro raises the protocol error and returns no number, and an
\* emitir_* attempt that called it ends there with no FECAESolicitar sent.
C11_MissingNumber ==
    \A t \in Threads :
        NoNumber(t)
        => /\ th[t].pc = "done"
           /\ th[t].out.kind = "raise"
           /\ th[t].out.err = "WSFE CbteNro"
           /\ th[t].out.val = None
           /\ th[t].cbte_nro = None
           /\ th[t].req = None
           /\ th[t].steps = <<"NumberRequested">>

C11_Witness ==
    \E t \in Threads :
        /\ NoNumber(t)
        /\ th[t].op = "emitir_comprobante"
        /\ th[t].pc = "done"
        /\ th[t].out.err = "WSFE CbteNro"

\* two callers whose FECAESolicitar for the same sales point and class are
\* both in flight
InFlightTogether(t, u) ==
    /\ t # u
    /\ th[t].pc = "solicitar"
    /\ th[u].pc = "solicitar"
    /\ th[t].req[1].PtoVta = th[u].req[1].PtoVta
    /\ th[t].req[1].CbteTipo = th[u].req[1].CbteTipo

\* C12: number allocation is not serialized by the client: the number of a
\* request in flight is 1 plus the last authorized number its own caller
\* read, whatever the other caller has in flight, so two callers that read
\* the same last authorized number for the same sales point and class have
\* requests with the same invoice number in flight together.
C12_SameNumberInFlight ==
    \A t \in Threads :
        th[t].pc = "solicitar"
        => /\ Cardinality(Reported(th[t].qresp[1])) = 1
           /\ th[t].req[1].CbteDesde \in {n + 1 : n \in Reported(th[t].qresp[1])}
           /\ \A u \in Threads :
                 (/\ InFlightTogether(t, u)
                  /\ Reported(th[u].qresp[1]) = Reported(th[t].qresp[1]))
                 => /\ th[u].req[1].CbteDesde = th[t].req[1].CbteDesde
                    /\ th[u].req[1].CbteHasta = th[t].req[1].CbteHasta

C12_Witness ==
    /\ InFlightTogether(1, 2)
    /\ Reported(th[1].qresp[1]) = {1}
    /\ Reported(th[2].qresp[1]) = {1}
    /\ srvLast[CBTE_TIPO_FACTURA_C] = 1
    /\ th[1].req[1].CbteTipo = CBTE_TIPO_FACTURA_C
    /\ th[1].req[1].CbteDesde = 2
    /\ th[2].req[1].CbteDesde = 2

\* the amount a text written with two decimals stands for, in cents
Cents(f) == f.units * 100 + f.cents

\* the request built for an invoice of the class cbte_tipo by the operation op
Built(op, cbte_tipo) ==
    /\ calc # None
    /\ calc.stage = "built"
    /\ calc.frame.op = op
    /\ calc.frame.cbte_tipo = cbte_tipo

\* C13: for every total of class B the request carries ImpNeto + ImpIVA =
\* ImpTotal to the cent, ImpTotal being the total asked for, and one Iva
\* block whose BaseImp and Importe are that ImpNeto and ImpIVA.
C13_ClassBSumsToTotal ==
    Built("emitir_comprobante", CBTE_TIPO_FACTURA_B)
    => /\ calc.frame.req # None
       /\ LET q == calc.frame.req[1]
          IN  /\ Cents(q.ImpTotal) = calc.frame.total
              /\ Cents(q.ImpNeto) + Cents(q.ImpIVA) = Cents(q.ImpTotal)
              /\ Cents(q.ImpNeto) >= 0
              /\ Cents(q.ImpIVA) >= 0
              /\ Len(q.Iva) = 1
              /\ q.Iva[1].BaseImp = q.ImpNeto
              /\ q.Iva[1].Importe = q.ImpIVA

C13_Witness ==
    /\ Built("emitir_comprobante", CBTE_TIPO_FACTURA_B)
    /\ calc.frame.total = 10001
    /\ Cents(calc.frame.req[1].ImpNeto) = 8265
    /\ Cents(calc.frame.req[1].ImpIVA) = 1736
    /\ Cents(calc.frame.req[1].Iva[1].Importe) = 1736

Abs(x) == IF x < 0 THEN 0 - x ELSE x

\* C14: for class B ImpNeto is the cent nearest to total / 1.21 and ImpIVA is
\* the total minus that amount, so no reconciliation has moved the tax; a
\* total of 121.00 gives 100.00 and 21.00.
C14_ClassBNetAndTax ==
    Built("emitir_comprobante", CBTE_TIPO_FACTURA_B)
    => /\ calc.frame.req # None
       /\ LET q == calc.frame.req[1]
              T == calc.frame.total
              n == Cents(q.ImpNeto)
          IN  /\ 2 * Abs(121 * n - 100 * T) < 121
              /\ Cents(q.ImpIVA) = T - n
              /\ T = 12100 => Cents(q.ImpNeto) = 10000 /\ Cents(q.ImpIVA) = 2100

C14_Witness ==
    /\ Built("emitir_comprobante", CBTE_TIPO_FACTURA_B)
    /\ calc.frame.total = 12100
    /\ calc.frame.req[1].ImpNeto = [units |-> 100, cents |-> 0]
    /\ calc.frame.req[1].ImpIVA = [units |-> 21, cents |-> 0]

\* C15: for class C the request carries ImpNeto = ImpTotal, ImpIVA = 0.00 and
\* no Iva block, from emitir_comprobante and from emitir_factura_c alike.
C15_ClassCNoTax ==
    \A op \in Emitir :
        Built(op, CBTE_TIPO_FACTURA_C)
        => /\ calc.frame.req # None
           /\ LET q == calc.frame.req[1]
              IN  /\ q.CbteTipo = CBTE_TIPO_FACTURA_C
                  /\ Cents(q.ImpTotal) = calc.frame.total
                  /\ q.ImpNeto = q.ImpTotal
                  /\ Cents(q.ImpIVA) = 0
                  /\ q.Iva = << >>

C15_Witness ==
    /\ Built("emitir_factura_c", CBTE_TIPO_FACTURA_C)
    /\ calc.frame.total = 10001
    /\ Cents(calc.frame.req[1].ImpNeto) = 10001
    /\ calc.frame.req[1].Iva = << >>

\* a caller inside emitir_comprobante with a class that is neither B nor C
OtherClass(t) ==
    /\ th[t].op = "emitir_comprobante"
    /\ th[t].cbte_tipo \notin {CBTE_TIPO_FACTURA_B, CBTE_TIPO_FACTURA_C}

\* C16: emitir_comprobante called with a class other than B (6) and C (11)
\* never has a FECAESolicitar in flight, asks the service about no other
\* class, returns no result, and once the number query has given a number it
\* ends with the unsupported-class error naming the class.
C16_UnsupportedClass ==
    \A t \in Threads :
        OtherClass(t)
        => /\ th[t].pc # "solicitar"
           /\ th[t].resp = None
           /\ \A i \in 1..Len(th[t].steps) : th[t].steps[i] = "NumberRequested"
           /\ th[t].req # None
              => /\ th[t].req[1].action = "FECompUltimoAutorizado"
                 /\ th[t].req[1].CbteTipo = th[t].cbte_tipo
           /\ th[t].pc = "done" => th[t].out.kind = "raise" /\ th[t].out.val = None
           /\ (/\ th[t].qresp # None
               /\ th[t].qresp[1].status < HttpErrorFloor
               /\ Reported(th[t].qresp[1]) # {})
              => /\ th[t].pc = "done"
                 /\ th[t].out.err = "CbteTipo no soportado"
                 /\ th[t].out.msg = <<th[t].cbte_tipo>>

C16_Witness ==
    \E t \in Threads :
        /\ OtherClass(t)
        /\ th[t].pc = "done"
        /\ th[t].qresp # None
        /\ Reported(th[t].qresp[1]) = {2}
        /\ th[t].out.err = "CbteTipo no soportado"
        /\ th[t].steps = <<"NumberRequested">>

\* the error raised for a response with an HTTP status of 400 or more: the
\* status and the head of the body
TransportError(out, err, status, body) ==
    /\ out.kind = "raise"
    /\ out.err = err
    /\ out.val = None
    /\ out.msg[1] = status
    /\ IsPrefix(out.msg[2], body)
    /\ Len(out.msg[2]) <= HttpBodyLimit

\* C17: a response with HTTP status 400 or more, from the authentication
\* endpoint or from the billing endpoint, ends the operation with a transport
\* error carrying the status and the head of the body: nothing of the
\* response is used (no ticket, no number, no result), nothing is in flight
\* afterwards and no further request has been sent.
C17_HttpError ==
    \A t \in Threads :
        /\ (th[t].lresp # None /\ th[t].lresp[1].status >= HttpErrorFloor)
           => /\ th[t].pc = "done"
              /\ TransportError(th[t].out, "WSAA HTTP", th[t].lresp[1].status,
                                th[t].lresp[1].ta)
              /\ th[t].ga[1].logins = 1
              /\ ~th[t].ga[1].returned
              /\ ta_cache = th[t].ga[1].before
              /\ th[t].req = None
              /\ th[t].steps = << >>
        /\ (th[t].qresp # None /\ th[t].qresp[1].status >= HttpErrorFloor)
           => /\ th[t].pc = "done"
              /\ TransportError(th[t].out, "WSFE HTTP", th[t].qresp[1].status,
                                th[t].qresp[1].elems)
              /\ th[t].cbte_nro = None
              /\ th[t].req = None
              /\ th[t].steps = <<"NumberRequested">>
        /\ (th[t].resp # None /\ th[t].resp[1].status >= HttpErrorFloor)
           => /\ th[t].pc = "done"
              /\ TransportError(th[t].out, "WSFE HTTP", th[t].resp[1].status,
                                th[t].resp[1].elems)
              /\ th[t].req = None
              /\ Terminal(th[t]) = "Failed"
              /\ Cardinality({i \in 1..Len(th[t].steps) : th[t].steps[i] = "Sent"}) = 1
              /\ th[t].steps[Len(th[t].steps)] = "Answered"

\* the number query answered with status 500 and a body that holds a number
C17_Witness ==
    \E t \in Threads :
        /\ th[t].pc = "done"
        /\ th[t].op = "emitir_comprobante"
        /\ th[t].qresp # None
        /\ th[t].qresp[1].status = 500
        /\ Reported(th[t].qresp[1]) # {}
        /\ th[t].out.err = "WSFE HTTP"
        /\ th[t].out.msg = <<500, th[t].qresp[1].elems>>

\* a caller whose login could not sign its request: no signing tool was
\* found, or the tool ended with a status other than 0
SignFailed(t) == th[t].signed \in {Some("notfound"), Some("failed")}

\* the operation ends at the failed signing: one signing, no POST to the
\* authentication endpoint, none to the billing endpoint, no ticket
SignFailureIsFatal(t) ==
    /\ th[t].pc = "done"
    /\ th[t].out.kind = "raise"
    /\ th[t].out.err = "openssl"
    /\ th[t].out.val = None
    /\ th[t].ga[1].logins = 1
    /\ ~th[t].ga[1].posted
    /\ ~th[t].ga[1].returned
    /\ th[t].lresp = None
    /\ ta_cache = th[t].ga[1].before
    /\ th[t].req = None
    /\ th[t].steps = << >>

\* the error text holds what the signing tool wrote
CarriesToolOutput(msg) == \E i \in 1..Len(msg) : msg[i] = "stderr"

LoginAnswered(t) ==
    /\ th[t].lresp # None
    /\ th[t].lresp[1].status < HttpErrorFloor

\* the response has the loginCmsReturn field and its document has token, sign
\* and expirationTime, none of them empty
CompleteTicket(resp) ==
    /\ resp.ta # None
    /\ resp.ta[1].token # None /\ resp.ta[1].token # Some(<< >>)
    /\ resp.ta[1].sign # None /\ resp.ta[1].sign # Some(<< >>)
    /\ resp.ta[1].exp # None

\* C19: a login gives a ticket only from a response that has the
\* loginCmsReturn field with token, sign and expirationTime all present and
\* not empty, and the ticket is made of those three; when the field is absent
\* or one of the three is missing or empty the login ends with a protocol
\* error, _get_auth returns nothing and the cache keeps what it held.
C19_TicketOnlyFromCompleteAnswer ==
    \A t \in Threads :
        /\ (th[t].ga # None /\ th[t].ga[1].logins = 1 /\ th[t].ga[1].returned)
           => /\ LoginAnswered(t)
              /\ CompleteTicket(th[t].lresp[1])
              /\ th[t].ga[1].after =
                    Some([token |-> th[t].lresp[1].ta[1].token[1],
                          sign |-> th[t].lresp[1].ta[1].sign[1],
                          exp |-> th[t].lresp[1].ta[1].exp[1]])
        /\ (LoginAnswered(t) /\ ~CompleteTicket(th[t].lresp[1]))
           => /\ th[t].pc = "done"
              /\ th[t].out.kind = "raise"
              /\ th[t].out.err = IF th[t].lresp[1].ta = None THEN "WSAA loginCmsReturn"
                                 ELSE "WSAA TA incompleto"
              /\ th[t].out.val = None
              /\ ~th[t].ga[1].returned
              /\ ta_cache = th[t].ga[1].before
              /\ th[t].req = None
              /\ th[t].steps = << >>

\* a login answered with a document whose sign is there but empty
C19_Witness ==
    \E t \in Threads :
        /\ LoginAnswered(t)
        /\ th[t].lresp[1].ta # None
        /\ th[t].lresp[1].ta[1].token # None
        /\ th[t].lresp[1].ta[1].sign = Some(<< >>)
        /\ th[t].lresp[1].ta[1].exp # None
        /\ th[t].pc = "done"
        /\ th[t].out.err = "WSAA TA incompleto"
        /\ ta_cache = th[t].ga[1].before

\* the time a written date and time stands for, in seconds
Strptime(f) == ((f.date * 24 + f.hour) * 60 + f.minute) * 60 + f.second

\* the characters that start markup inside the text of an element
Markup == {"&", "<"}

HasMarkup(name) == \E i \in 1..Len(name) : name[i] \in Markup

\* what an XML parser reads back from the document: nothing when the text of
\* the service element is not well formed
ParseLtr(doc) ==
    IF HasMarkup(doc.service) THEN None
    ELSE Some([service |-> doc.service, uniqueId |-> doc.uniqueId,
               generation |-> Strptime(doc.generationTime),
               expiration |-> Strptime(doc.expirationTime)])

LtrBuilt == calc # None /\ calc.stage = "ltr"

\* C20 as stated: every login request parses back to the service name asked
\* for, a generation time exactly 5 minutes before the instant and an
\* expiration time exactly 12 hours after it.
C20_Stated ==
    LtrBuilt
    => /\ ParseLtr(calc.ltr) # None
       /\ LET p == ParseLtr(calc.ltr)[1]
          IN  /\ p.service = calc.service
              /\ p.generation * 1000 = calc.nowMs - GenerationLead * 60 * 1000
              /\ p.expiration * 1000 = calc.nowMs + TicketHours * 3600 * 1000

\* C20: for every instant, and every service name without the characters
\* "&" and "<", the login request parses back to that service name, a
\* generation time exactly 5 minutes before and an expiration time exactly 12
\* hours after the whole second the instant is in, 12 h 5 min apart, and a
\* unique identifier that is that second counted from the epoch.
C20_LtrRoundTrip ==
    (LtrBuilt /\ ~HasMarkup(calc.service))
    => /\ ParseLtr(calc.ltr) # None
       /\ LET p == ParseLtr(calc.ltr)[1]
              sec == calc.nowMs \div 1000
          IN  /\ p.service = calc.service
              /\ p.generation = sec - GenerationLead * 60
              /\ p.expiration = sec + TicketHours * 3600
              /\ p.expiration - p.generation = (TicketHours * 60 + GenerationLead) * 60
              /\ p.uniqueId = sec
              /\ calc.nowMs - 1000 < p.uniqueId * 1000
              /\ p.uniqueId * 1000 <= calc.nowMs

\* an instant half a second into a second, whose generation time falls on
\* the day before
C20_Witness ==
    /\ LtrBuilt
    /\ calc.service = <<"w", "s", "f", "e">>
    /\ calc.nowMs % 1000 = 500
    /\ calc.ltr.generationTime.date + 1 = Strftime(calc.nowMs).date
    /\ ParseLtr(calc.ltr)[1].generation * 1000 = calc.nowMs - 500 - GenerationLead * 60 * 1000

\* the environment an address belongs to
EnvOf(url) ==
    IF url \in {"https://wsaa.afip.gov.ar/ws/services/LoginCms",
                "https://servicios1.afip.gov.ar/wsfev1/service.asmx"}
    THEN "production"
    ELSE IF url \in {"https://wsaahomo.afip.gov.ar/ws/services/LoginCms",
                     "https://wswhomo.afip.gov.ar/wsfev1/service.asmx"}
    THEN "homologation"
    ELSE "none"

\* the environment the mode of the client selects
EnvOfMode == IF cfg.modo = "PROD" THEN "production" ELSE "homologation"

\* every POST of a login and every request in flight to the billing endpoint
\* goes to an address of the environment of the mode
UrlsOfTheMode ==
    \A t \in Threads :
        /\ (th[t].ga # None /\ th[t].ga[1].posted)
           => /\ th[t].ga[1].url = cfg.wsaa_url
              /\ EnvOf(th[t].ga[1].url) = EnvOfMode
        /\ th[t].req # None => EnvOf(th[t].req[1].url) = EnvOfMode

\* C21: the environment follows from the mode alone and stays: no step of
\* the client changes the mode, the numbers or the authentication address,
\* and after every step each login POST and each billing request goes to an
\* address of the environment of the mode (production for PROD, homologation
\* for any other mode).
C21_OneEnvironment ==
    [][cfg' = cfg /\ UrlsOfTheMode']_vars

\* a client built with the flag "homo": its login went to the homologation
\* authentication address and its invoice is in flight to the homologation
\* billing address
C21_Witness ==
    \E t \in Threads :
        /\ cfg.modo = "HOMO"
        /\ th[t].pc = "solicitar"
        /\ issued = 1
        /\ cfg.wsaa_url = "https://wsaahomo.afip.gov.ar/ws/services/LoginCms"
        /\ th[t].req[1].url = "https://wswhomo.afip.gov.ar/wsfev1/service.asmx"

Ruled == calc # None /\ calc.stage = "ruled"

\* the taxpayer type a value stands for: RI when it reads RI in any case
\* (blanks around it aside), MONO for everything else
StandsFor(value) ==
    IF value # None /\ value[1].s \in {"RI", "ri", "Ri"} THEN "RI" ELSE "MONO"

\* C22: every taxpayer-type value normalizes to MONO or RI (empty, None and
\* unknown texts to MONO), normalizing again changes nothing, exactly one
\* class is allowed (C for MONO, B for RI), is_cbte_allowed_for_taxpayer is
\* true exactly of the allowed classes and the default class is allowed.
C22_TaxpayerRules ==
    Ruled
    => /\ calc.normalized \in {"MONO", "RI"}
       /\ calc.normalized = StandsFor(calc.value)
       /\ calc.again = calc.normalized
       /\ Len(calc.allowed) = 1
       /\ calc.allowed[1] = IF calc.normalized = "MONO" THEN CBTE_TIPO_FACTURA_C
                            ELSE CBTE_TIPO_FACTURA_B
       /\ calc.is_allowed <=> (\E i \in 1..Len(calc.allowed) : calc.allowed[i] = calc.cbte_tipo)
       /\ \E i \in 1..Len(calc.allowed) : calc.allowed[i] = calc.default

\* an unknown text with blanks around it, asked about class C
C22_Witness ==
    /\ Ruled
    /\ calc.value = Some([s |-> "unknown", pad |-> TRUE])
    /\ calc.cbte_tipo = CBTE_TIPO_FACTURA_C
    /\ calc.normalized = "MONO"
    /\ calc.is_allowed
    /\ calc.default = CBTE_TIPO_FACTURA_C

Ledger == calc # None /\ calc.stage = "ledger"

\* the rows of a table with the sales point, class and number of inv
RowsOf(table, inv) ==
    {i \in 1..Len(table) : /\ table[i].inv.pv = inv.pv
                           /\ table[i].inv.cbte_tipo = inv.cbte_tipo
                           /\ table[i].inv.cbte_nro = inv.cbte_nro}

\* C23: every run of import_invoices reports imported + skipped = the number
\* of source invoices; every run after the first imports 0 and skips them
\* all; and the destination gains at most one row for a sales point, class
\* and number, and none where it had one already.
C23_ImportIdempotent ==
    Ledger
    => /\ \A i \in 1..Len(calc.runs) :
             /\ calc.runs[i].imported + calc.runs[i].skipped = Len(calc.src)
             /\ i > 1 => /\ calc.runs[i].imported = 0
                         /\ calc.runs[i].skipped = Len(calc.src)
       /\ \A inv \in LegacyInvoices :
             Cardinality(RowsOf(calc.dst, inv))
                <= IF RowsOf(calc.dst0, inv) = {} THEN 1
                   ELSE Cardinality(RowsOf(calc.dst0, inv))
       /\ calc.runs # << >>
          => /\ Len(calc.dst) = Len(calc.dst0) + calc.runs[1].imported
             /\ \A i \in 1..Len(calc.src) : RowsOf(calc.dst, calc.src[i].inv) # {}
       /\ calc.runs = << >> => calc.dst = calc.dst0

\* two source invoices with different numbers, imported by the first run and
\* skipped by the second and the third
C23_Witness ==
    /\ Ledger
    /\ Len(calc.src) = 2
    /\ calc.src[1].inv.cbte_nro # calc.src[2].inv.cbte_nro
    /\ calc.dst0 = << >>
    /\ Len(calc.runs) = 3
    /\ calc.runs[1] = [imported |-> 2, skipped |-> 0]
    /\ calc.runs[3] = [imported |-> 0, skipped |-> 2]
    /\ Len(calc.dst) = 2

\* the number two or four digits stand for
RECURSIVE NumberOf(_)
NumberOf(digits) ==
    IF digits = << >> THEN 0
    ELSE NumberOf(SubSeq(digits, 1, Len(digits) - 1)) * 10 + (digits[Len(digits)] - 48)

\* a created_at in the old format: DD/MM/YYYY
IsLegacy(stamp) == stamp[3] = 47 /\ stamp[6] = 47

\* the day a created_at in the old format stands for, as a number YYYYMMDD
LegacyDay(stamp) ==
    NumberOf(SubSeq(stamp, 7, 10)) * 10000 + NumberOf(SubSeq(stamp, 4, 5)) * 100
        + NumberOf(SubSeq(stamp, 1, 2))

DayNumber(d) == d.y * 10000 + d.m * 100 + d.d

Listed(rows, row) == \E i \in 1..Len(rows) : rows[i] = row

\* C24: an imported invoice whose created_at is in the old DD/MM/YYYY
\* HH:MM:SS format is in the listing and in the count of the day it was made
\* on, and of every range of days that holds that day.
C24_LegacyDateListed ==
    (Ledger /\ calc.asked # None)
    => LET a == calc.asked[1]
       IN  \A i \in 1..Len(a.db) :
              IsLegacy(a.db[i].inv.created_at)
              => /\ LegacyDay(a.db[i].inv.created_at) = DayNumber(a.day)
                    => /\ Listed(a.of_day, a.db[i])
                       /\ a.day_sum.cant >= 1
                 /\ (/\ DayNumber(a.from) <= LegacyDay(a.db[i].inv.created_at)
                     /\ LegacyDay(a.db[i].inv.created_at) <= DayNumber(a.to))
                    => /\ Listed(a.of_range, a.db[i])
                       /\ a.range_sum.cant >= 1

\* the lines put together again with sep between them
RECURSIVE Glue(_, _)
Glue(lines, sep) ==
    IF Len(lines) = 1 THEN lines[1]
    ELSE lines[1] \o sep \o Glue(Tail(lines), sep)

HasReal(text) == \E i \in 1..Len(text) : text[i] \in {"LF", "CR"}

\* text with every line end, CR LF, CR or LF, counted as one LF
RECURSIVE OneLineEnd(_)
OneLineEnd(text) ==
    IF text = << >> THEN << >>
    ELSE IF Head(text) = "CR"
    THEN <<"LF">> \o OneLineEnd(IF Len(text) >= 2 /\ text[2] = "LF"
                                THEN SubSeq(text, 3, Len(text)) ELSE Tail(text))
    ELSE <<Head(text)>> \o OneLineEnd(Tail(text))

\* lines are the lines of text: no line holds a separator and the lines
\* with the separator between them are the text
LinesOf(lines, text) ==
    /\ Len(lines) >= 1
    /\ IF HasReal(text)
       THEN /\ \A i \in 1..Len(lines) : ~HasReal(lines[i])
            /\ Glue(lines, <<"LF">>) = OneLineEnd(text)
       ELSE /\ \A i \in 1..Len(lines) :
                  \A j \in 1..Len(lines[i]) - 1 :
                      ~(lines[i][j] = "BS" /\ lines[i][j + 1] = "n")
            /\ Glue(lines, <<"BS", "n">>) = text

\* a save has been made and the lines have been read back after it
ReadBack == calc # None /\ calc.stage = "template" /\ calc.text # None /\ calc.got # None

\* C25: after save_ticket_lines(text), get_ticket_lines gives the lines of
\* text in their order, split at the real line ends or, when text has none,
\* at the escaped backslash-n; the table holds one row per line and no row
\* of an earlier save or of init_db.
C25_TemplateRoundTrip ==
    ReadBack
    => /\ LinesOf(calc.got[1], calc.text[1])
       /\ Len(calc.db.rows) = Len(calc.got[1])
       /\ \A i \in 1..Len(calc.db.rows) :
             /\ calc.db.rows[i].text = calc.got[1][i]
             /\ calc.db.rows[i].id \notin calc.before

\* the save of a text with a real line end and an escaped one, over an
\* earlier save of three lines
C25_Witness ==
    /\ ReadBack
    /\ Cardinality(calc.before) = 3
    /\ calc.text[1] = <<"A", "LF", "BS", "n">>
    /\ calc.got[1] = << <<"A">>, <<"BS", "n">> >>

\* the values a response gives for a field, in document order
Occurrences(elems, tag) ==
    LET m == SelectSeq(elems, LAMBDA e : e.tag = tag)
    IN  [i \in 1..Len(m) |-> m[i].text.s]

\* the response names the field more than once, with different values
Disagrees(elems, tag) ==
    \E i, j \in 1..Len(Occurrences(elems, tag)) :
        Occurrences(elems, tag)[i] # Occurrences(elems, tag)[j]

\* C26: of several Resultado, CAE or CAEFchVto elements in the response to
\* FECAESolicitar the first in document order is the one used: a result
\* carries the first CAE and the first CAEFchVto, it is returned only when
\* the first Resultado is "A", and a rejection names the first Resultado.
C26_FirstMatchWins ==
    \A t \in Threads :
        LET e == th[t].resp[1].elems
        IN  Answered(t)
            => /\ th[t].out.kind = "return"
                  => /\ Occurrences(e, "Resultado")[1] = "A"
                     /\ th[t].out.val[1].cae = Occurrences(e, "CAE")[1]
                     /\ th[t].out.val[1].cae_vto = Occurrences(e, "CAEFchVto")[1]
               /\ (Occurrences(e, "Resultado") # << >> /\ Occurrences(e, "Resultado")[1] # "A")
                  => /\ th[t].out.kind = "raise"
                     /\ th[t].out.err = "WSFE rechazo"
                     /\ th[t].out.msg.resultado = Some(Occurrences(e, "Resultado")[1])

\* a result from a response with two different CAE and two different CAEFchVto
C26_Witness ==
    \E t \in Threads :
        /\ Answered(t)
        /\ Disagrees(th[t].resp[1].elems, "CAE")
        /\ Disagrees(th[t].resp[1].elems, "CAEFchVto")
        /\ th[t].out.kind = "return"
        /\ th[t].out.val[1].cae = CaeText
        /\ th[t].out.val[1].cae_vto = VtoText

\* a caller whose FECompUltimoAutorizado was answered, below HTTP 400, with
\* at least one CbteNro
NumberAnswered(t) ==
    /\ th[t].qresp # None
    /\ th[t].qresp[1].status < HttpErrorFloor
    /\ Occurrences(th[t].qresp[1].elems, "CbteNro") # << >>

\* the number get_next_cbte_nro gave the caller
NumberGiven(t) ==
    IF th[t].op = "get_next_cbte_nro" THEN th[t].out.val ELSE th[t].cbte_nro

\* C27: of several CbteNro elements in the answer to FECompUltimoAutorizado
\* the first in document order is the one used: get_next_cbte_nro gives 1
\* plus its value.
C27_FirstNumberWins ==
    \A t \in Threads :
        NumberAnswered(t)
        => NumberGiven(t) = Some(Occurrences(th[t].qresp[1].elems, "CbteNro")[1] + 1)

\* caller t of emitir_* is between its two calls of _get_auth, the first of
\* which found the cache empty and logged in
LoggedInAtEntry(t) ==
    /\ th[t].pc = "entered"
    /\ th[t].op \in Emitir
    /\ th[t].ga[1].before = None
    /\ th[t].ga[1].logins = 1

\* the step in which get_next_cbte_nro calls _get_auth makes no login: the
\* cache is hit, the ticket of the entry is handed out again and goes into
\* the request, the cache stays
SecondAuthFromSameTicket(t) ==
    /\ th'[t].pc = "query"
    /\ th'[t].ga[1].logins = 0
    /\ th'[t].ga[1].auth = th[t].auth_xml
    /\ th'[t].req[1].Auth = th[t].auth_xml[1]
    /\ ta_cache' = ta_cache
    /\ issued' = issued

\* a caller enters the client while the cached ticket has more than the
\* margin left: no login, the cache stays
LaterCallWithoutLogin(t) ==
    (/\ th[t].pc = "idle"
     /\ th'[t].pc # "idle"
     /\ ta_cache # None
     /\ ta_cache[1].exp - now > RenewalMargin)
    => /\ th'[t].pc # "login"
       /\ th'[t].ga[1].logins = 0
       /\ th'[t].signed = None
       /\ ta_cache' = ta_cache
       /\ issued' = issued

\* C28 as stated: the login of the entry returned a ticket expiring more
\* than 10 minutes after its return, so get_next_cbte_nro makes no login.
C28_Stated ==
    [][\A t \in Threads :
          (/\ LoggedInAtEntry(t)
           /\ th[t].ga[1].exp - calc.at > RenewalMargin
           /\ th'[t].pc # "entered")
          => SecondAuthFromSameTicket(t)]_vars

\* C28: from an empty cache one emitir_* call makes exactly one login, and
\* both Auth blocks come from its ticket, when that ticket still has more
\* than 10 minutes left at the moment get_next_cbte_nro calls _get_auth;
\* and a later call made while more than 10 minutes remain makes no login.
C28_OneLoginPerCall ==
    [][\A t \in Threads :
          /\ (/\ LoggedInAtEntry(t)
              /\ th[t].ga[1].exp - now > RenewalMargin
              /\ th'[t].pc # "entered")
             => SecondAuthFromSameTicket(t)
          /\ LaterCallWithoutLogin(t)]_vars

\* the number query of an emitir_* call is in flight with the ticket of the
\* one login made so far, which the entry made
C28_Witness ==
    \E t \in Threads :
        /\ th[t].op \in Emitir
        /\ th[t].pc = "query"
        /\ th[t].ga[1].logins = 0
        /\ issued = 1
        /\ th[t].req[1].Auth = th[t].auth_xml[1]
        /\ ta_cache[1].exp - now > RenewalMargin

\* caller t's login failed: _get_auth started one and did not return
LoginFailed(t) ==
    /\ th[t].pc = "done"
    /\ th[t].ga # None
    /\ th[t].ga[1].logins = 1
    /\ ~th[t].ga[1].returned

\* no ticket, or one with the margin or less left
NothingUsable(cache, t) == cache = None \/ cache[1].exp - t <= RenewalMargin

\* after a failed login the caller has an error and nothing else, and the
\* cache holds what it held when _get_auth was called: nothing, or the
\* ticket that was too close to its expiry
CacheAsBefore(t) ==
    LoginFailed(t)
    => /\ th[t].out.kind = "raise"
       /\ th[t].out.err \in {"openssl", "WSAA HTTP", "WSAA loginCmsReturn", "WSAA TA incompleto"}
       /\ th[t].out.val = None
       /\ ta_cache = th[t].ga[1].before
       /\ NothingUsable(ta_cache, th[t].ga[1].callNow)
       /\ NothingUsable(ta_cache, now)

\* the cache changes only in the step in which a login that signed its
\* request is answered, below HTTP 400, with a complete ticket, and it then
\* holds that ticket
WrittenByCompleteLogin ==
    ta_cache' # ta_cache
    => \E t \in Threads :
          /\ th[t].pc = "login"
          /\ th[t].signed = Some("ok")
          /\ th'[t].lresp # None
          /\ th'[t].lresp[1].status < HttpErrorFloor
          /\ CompleteTicket(th'[t].lresp[1])
          /\ ta_cache' = Some([token |-> th'[t].lresp[1].ta[1].token[1],
                               sign |-> th'[t].lresp[1].ta[1].sign[1],
                               exp |-> th'[t].lresp[1].ta[1].exp[1]])

\* a call of _get_auth that finds nothing usable in the cache starts a
\* login: it signs a request and, when that worked, posts it
LoginAttempted(t) ==
    (/\ th[t].pc \in {"idle", "entered"}
     /\ th'[t].pc # th[t].pc
     /\ NothingUsable(ta_cache, now))
    => /\ th'[t].ga[1].logins = 1
       /\ th'[t].signed # None
       /\ th'[t].signed = Some("ok") => (th'[t].pc = "login" /\ th'[t].ga[1].posted)

\* C29: a failed login (signing, transport, malformed ticket) leaves the
\* cache as it was, empty or with the near-expiry ticket; the next call of
\* _get_auth starts a new login; the cache is written only when a login
\* has returned a complete ticket.
C29_FailedLoginKeepsCache ==
    [][/\ \A t \in Threads : CacheAsBefore(t)' /\ LoginAttempted(t)
       /\ WrittenByCompleteLogin]_vars

\* a login made over a near-expiry ticket was answered with an incomplete
\* document: the ticket is still in the cache
C29_Witness ==
    \E t \in Threads :
        /\ LoginFailed(t)
        /\ th[t].out.err = "WSAA TA incompleto"
        /\ th[t].ga[1].before # None
        /\ ta_cache = th[t].ga[1].before

\* the answer caller t has is an approval: below HTTP 400, the first
\* Resultado "A"
Approved(t) ==
    /\ th[t].resp # None
    /\ th[t].resp[1].status < HttpErrorFloor
    /\ Occurrences(th[t].resp[1].elems, "Resultado") # << >>
    /\ Occurrences(th[t].resp[1].elems, "Resultado")[1] = "A"

\* the press of the button may go on to the billing service: it has items,
\* a customer, and the class the taxpayer type is allowed
MayInvoice(click) ==
    /\ click.items # << >>
    /\ click.doc = "cf"
    /\ click.cbte_tipo = IF StandsFor(click.taxpayer) = "RI" THEN CBTE_TIPO_FACTURA_B
                         ELSE CBTE_TIPO_FACTURA_C

\* the ledger changes by one row, written when emitir_comprobante has
\* returned the result of an approval, with that result's number, CAE and
\* expiry and the class and total asked for
RowFromApprovedResult ==
    calc'.invoices # calc.invoices
    => /\ th[Ui].pc = "done"
       /\ th[Ui].out.kind = "return"
       /\ Approved(Ui)
       /\ Len(calc'.invoices) = Len(calc.invoices) + 1
       /\ SubSeq(calc'.invoices, 1, Len(calc.invoices)) = calc.invoices
       /\ LET row == calc'.invoices[Len(calc'.invoices)]
              res == th[Ui].out.val[1]
          IN  /\ row.cbte_nro = res.cbte_nro
              /\ row.cae = res.cae
              /\ row.cae_vto = res.cae_vto
              /\ row.cbte_nro = th[Ui].cbte_nro[1]
              /\ row.cbte_tipo = calc.click[1].cbte_tipo
              /\ row.imp_total = SumSubtotals(calc.click[1].items)

\* C30: on_facturar writes an invoice row only when emitir_comprobante has
\* returned an approved result, with that result's number, CAE and expiry;
\* a failed attempt writes none; a press with no items or with a class the
\* taxpayer type is not allowed sends no request and writes no row.
C30_LedgerOnlyAfterApproval ==
    [][/\ RowFromApprovedResult
       /\ (th[Ui].pc = "done" /\ th[Ui].out.kind = "raise") => calc'.invoices = calc.invoices
       /\ (th[Ui].pc = "idle" /\ calc'.click # None /\ ~MayInvoice(calc'.click[1]))
          => (th' = th /\ calc'.invoices = calc.invoices /\ srvLast' = srvLast)
       /\ th'[Ui].pc # "idle" => MayInvoice(calc'.click[1])]_vars

\* two invoices are in the ledger, with the numbers and the CAE of their
\* approvals, and the last press of the button was blocked for its class
C30_Witness ==
    /\ calc # None
    /\ calc.stage = "facturar"
    /\ Len(calc.invoices) = 2
    /\ calc.invoices[1].cae = CaeText
    /\ calc.invoices[2].cbte_nro = srvLast[calc.invoices[2].cbte_tipo]
    /\ calc.click[1].items # << >>
    /\ calc.click[1].doc = "cf"
    /\ ~MayInvoice(calc.click[1])
    /\ calc.box = "Tipo de comprobante bloqueado"

====
